---------------------------- MODULE Spec2Model ----------------------------
(***************************************************************************)
(* NTRINGB (lock-free ring buffer coordinator, ntringb.h) and NTARC        *)
(* (lock-free atomic shared pointer, ntarc.h) as state machines.           *)
(*                                                                         *)
(* Every interlocked operation, every read and every write of a shared     *)
(* location is one step; thread-local computation is folded into the step  *)
(* that precedes it.  Memory is sequentially consistent (the Interlocked*  *)
(* operations and MemoryBarrier of the source are full fences).            *)
(***************************************************************************)
EXTENDS Integers, Naturals, Sequences, FiniteSets, TLC

(***************************************************************************)
(* Bounds of the model.                                                    *)
(***************************************************************************)
LongBits == 6            \* width of a LONG in the model (the code: 32)
MaxCapLog2 == 3          \* pow2_buffer_count ranges over 2^1 .. 2^MaxCapLog2
NumProducers == 2        \* producer threads that may take part
NumConsumers == 2        \* consumer threads that may take part
MaxItems == 5            \* items each producer writes (max_i * max_j)
MaxWork == 10            \* cap on producers * consumers * items of a run
NumWriters == 2          \* threads running foo_thread1
NumReaders == 2          \* threads running foo_thread2
StoresPerWriter == 1     \* times a writer runs foo_thread1
LoadsPerReader == 1      \* times a reader runs foo_thread2
ClonesPerHolder == 2     \* clones one variable receives in a clone/drop run
WrapLead == 1            \* most claims a run makes before the counters wrap
NumRings == 2            \* rings one polling consumer monitors
RingItems == 3           \* items the producer of a monitored ring writes

LongMod == 2 ^ LongBits
LongHalf == 2 ^ (LongBits - 1)

\* A value of type LONG: two's complement, LongBits wide.
ToLong(x) == ((x + LongHalf) % LongMod) - LongHalf

\* Bit i (0 = least significant) of the two's complement image of x.
BitOf(x, i) == ((x % LongMod) \div (2 ^ i)) % 2

RECURSIVE BitAndFrom(_, _, _)
BitAndFrom(a, b, i) ==
    IF i = LongBits THEN 0
    ELSE (BitOf(a, i) * BitOf(b, i)) * (2 ^ i) + BitAndFrom(a, b, i + 1)

\* The C operator & on two LONGs.
BitAnd(a, b) == ToLong(BitAndFrom(a, b, 0))

\* Mutant: the increment is lost, as that of a plain ++ under contention.
increment_lost(x) == x

InterlockedIncrement(x) == ToLong(x + 1)

\* Mutant: the decrement is lost.
decrement_lost(x) == x

InterlockedDecrement(x) == ToLong(x - 1)

(***************************************************************************)
(* Threads.                                                                *)
(***************************************************************************)
Producers == 1 .. NumProducers
Consumers == {NumProducers + i : i \in 1 .. NumConsumers}
RingThreads == Producers \cup Consumers

NoValue == <<0, 0>>      \* memset(g_foo, 0, ...): a slot never written

\* The threads of the shared-pointer program: main, the writers and the
\* readers.
MainThread == 0
Writers == 1 .. NumWriters
Readers == {NumWriters + i : i \in 1 .. NumReaders}
ArcThreads == {MainThread} \cup Writers \cup Readers

\* The objects foo_new can allocate; object k has its control block at
\* address 2k and its data at address 2k + 1.  An address is never handed
\* out twice, so that a stale pointer is always recognised as one.
MaxObjects == NumWriters * StoresPerWriter
Objects == 1 .. MaxObjects

VARIABLES
    \* NTRINGB g_ringb
    next_write_pos, last_write_pos, next_read_pos, last_read_pos,
    pow2_buffer_count,
    \* FOO g_foo[FOO_COUNT]: slot index -> value
    g_foo,
    \* per ring thread: NTRINGB_POS.current_pos, the index returned by
    \* begin_* (pos), the local FOO (current)
    current_pos, buffer_pos, current,
    \* per ring thread: position in foo_producer / foo_consumer, the
    \* iterations completed, and the iterations to run
    pc, count, max_i,
    \* history: stored[p] is the value the claimant of write sequence p
    \* stored; consumed[c] is what consumer c has read, in order
    stored, consumed,
    \* history: the values InterlockedIncrement returned into current_pos
    \* from next_write_pos and from next_read_pos, in the order returned
    write_claims, read_claims,
    \* volatile NTARC g_foo of the shared-pointer example, the
    \* reference_count of every control block, the number of calls of
    \* pfn_destroy on every object, and the next object malloc hands out
    g_arc, reference_count, destroys, next_obj,
    \* the p_destroy_context of every control block, and (history) the
    \* arguments of every call of pfn_destroy on every object
    p_destroy_context, destroy_args,
    \* per shared-pointer thread: its position, its local NTARC foo, the
    \* locals old_chunk, new_chunk and old_reference_count / ref_count of
    \* the ntarc call it is in, and the iterations completed
    apc, foo, old_chunk, new_chunk, ref_count, iter,
    \* history: a reference_count was touched after pfn_destroy; the
    \* register the cell implements, and the value of that register when
    \* a thread's atomic_load took effect
    uaf, reg, lin,
    \* several rings read by one polling thread: the NTRINGB and the
    \* buffer of every ring, the cursor and position of its producer, the
    \* consumer's cursor on it, the ring the consumer is visiting, and
    \* (history) what the consumer has read from every ring, in order
    rings, bufs, wpos, rpos, visit, received

ringvars == <<next_write_pos, last_write_pos, next_read_pos, last_read_pos,
              pow2_buffer_count, g_foo, current_pos, buffer_pos,
              current, pc, count, max_i, stored, consumed,
              write_claims, read_claims>>

arcvars == <<g_arc, reference_count, destroys, next_obj, apc, foo,
             old_chunk, new_chunk, ref_count, iter, uaf, reg, lin,
             p_destroy_context, destroy_args>>

multivars == <<rings, bufs, wpos, rpos, visit, received>>

vars == <<ringvars, arcvars, multivars>>

(***************************************************************************)
(* ntringb.h                                                               *)
(***************************************************************************)
\* Mutant: one slot too many is reported free.
available_write_off_by_one(t) ==
    ToLong(ToLong(ToLong(pow2_buffer_count + last_read_pos) - current_pos[t]) + 2)

\* Mutant: the space is counted from the write instead of the read watermark.
available_write_of_last_write(t) ==
    ToLong(ToLong(ToLong(pow2_buffer_count + last_write_pos) - current_pos[t]) + 1)

\* Mutant: the whole buffer is reported free, whatever is unread.
available_write_no_wait(t) == pow2_buffer_count

\* Mutant: the capacity is left out of the space.
available_write_forgets_capacity(t) ==
    ToLong(ToLong(last_read_pos - current_pos[t]) + 1)

\* ntringb_available_write
ntringb_available_write(t) ==
    ToLong(ToLong(ToLong(pow2_buffer_count + last_read_pos) - current_pos[t]) + 1)

\* Mutant: the claimed instead of the committed write watermark.
available_read_of_claims(t) ==
    ToLong(ToLong(next_write_pos - current_pos[t]) + 1)

\* Mutant: one element too many is reported readable.
available_read_off_by_one(t) ==
    ToLong(ToLong(last_write_pos - current_pos[t]) + 2)

\* Mutant: an element is reported readable whatever was committed.
available_read_always(t) == 1

\* Mutant: the positions are compared instead of their difference.
available_read_by_comparison(t) ==
    IF last_write_pos >= current_pos[t] THEN 1 ELSE 0

\* ntringb_available_read
ntringb_available_read(t) ==
    ToLong(ToLong(last_write_pos - current_pos[t]) + 1)

\* Mutant: the mask is the capacity instead of the capacity less one.
BufferPosOfCapacity(p) == BitAnd(p, pow2_buffer_count)

\* current_pos & (pow2_buffer_count - 1)
BufferPos(p) == BitAnd(p, ToLong(pow2_buffer_count - 1))

\* The value producer t writes in its k-th iteration (a tagged integer).
Item(t, k) == <<t, k>>

Active(t) == max_i[t] > 0

\* The sequence numbers 0 .. n of the model's runs.
SeqNums == 0 .. (NumProducers * MaxItems)

\* Items per producer in a run of np producers and nc consumers.
ItemsFor(np, nc) ==
    LET k == MaxWork \div (np * nc)
    IN IF k < MaxItems THEN k ELSE MaxItems

\* The runs of the model: the ring's size, who takes part, how many items.
RingConfigs ==
    {c \in [caplog : 1 .. MaxCapLog2, np : 1 .. NumProducers,
            nc : 1 .. NumConsumers, k : 1 .. MaxItems] :
        c.k = ItemsFor(c.np, c.nc)}

\* The ways to split total reads over the first nc consumers.
ReadSplits(nc, total) ==
    {q \in [Consumers -> 0 .. total] :
        /\ \A c \in Consumers : (c > NumProducers + nc) => q[c] = 0
        /\ \A c \in Consumers : (c <= NumProducers + nc) => q[c] > 0
        /\ LET RECURSIVE Sum(_)
               Sum(S) == IF S = {} THEN 0
                         ELSE LET x == CHOOSE y \in S : TRUE
                              IN q[x] + Sum(S \ {x})
           IN Sum(Consumers) = total}

\* ntringb_init, then ntringb_pos_init in every participating thread.
RingInit ==
    /\ next_write_pos = -1
    /\ last_write_pos = -1
    /\ next_read_pos = -1
    /\ last_read_pos = -1
    /\ \E c \in RingConfigs :
        /\ pow2_buffer_count = 2 ^ c.caplog
        /\ \E q \in ReadSplits(c.nc, c.np * c.k) :
              max_i = [t \in RingThreads |->
                          IF t \in Producers
                          THEN (IF t <= c.np THEN c.k ELSE 0)
                          ELSE q[t]]
    /\ g_foo = [i \in 0 .. (pow2_buffer_count - 1) |-> NoValue]
    /\ current_pos = [t \in RingThreads |-> -1]
    /\ buffer_pos = [t \in RingThreads |-> 0]
    /\ current = [t \in RingThreads |-> NoValue]
    /\ pc = [t \in RingThreads |-> "idle"]
    /\ count = [t \in RingThreads |-> 0]
    /\ stored = [p \in SeqNums |-> NoValue]
    /\ consumed = [t \in Consumers |-> <<>>]
    /\ write_claims = <<>>
    /\ read_claims = <<>>

\* The runs that fill the ring: one item more than the ring has slots goes
\* through it, the first producer and the first consumer doing all the
\* work but one item for each further thread.
FullRingConfigs ==
    {c \in [caplog : 1 .. MaxCapLog2, np : 1 .. NumProducers,
            nc : 1 .. NumConsumers] :
        2 * (c.np + c.nc) <= 2 ^ c.caplog}

\* ntringb_init and ntringb_pos_init for a run that fills the ring.
FullRingInit ==
    /\ next_write_pos = -1
    /\ last_write_pos = -1
    /\ next_read_pos = -1
    /\ last_read_pos = -1
    /\ \E c \in FullRingConfigs :
        /\ pow2_buffer_count = 2 ^ c.caplog
        /\ max_i = [t \in RingThreads |->
                       IF t \in Producers
                       THEN (IF t = 1 THEN 2 ^ c.caplog + 2 - c.np
                             ELSE IF t <= c.np THEN 1 ELSE 0)
                       ELSE (IF t = NumProducers + 1
                             THEN 2 ^ c.caplog + 2 - c.nc
                             ELSE IF t <= NumProducers + c.nc THEN 1 ELSE 0)]
    /\ g_foo = [i \in 0 .. (pow2_buffer_count - 1) |-> NoValue]
    /\ current_pos = [t \in RingThreads |-> -1]
    /\ buffer_pos = [t \in RingThreads |-> 0]
    /\ current = [t \in RingThreads |-> NoValue]
    /\ pc = [t \in RingThreads |-> "idle"]
    /\ count = [t \in RingThreads |-> 0]
    /\ stored = [p \in 0 .. pow2_buffer_count |-> NoValue]
    /\ consumed = [t \in Consumers |-> <<>>]
    /\ write_claims = <<>>
    /\ read_claims = <<>>

\* A slot written before the run started.
OldValue == <<0, 1>>

\* A ring that has been in use for so long that its counters are about to
\* wrap: everything written was read and committed, and the threads of a
\* run that fills the ring are about to start on it.
WrapInit ==
    /\ \E d \in 0 .. WrapLead :
        /\ next_write_pos = LongHalf - 1 - d
        /\ last_write_pos = LongHalf - 1 - d
        /\ next_read_pos = LongHalf - 1 - d
        /\ last_read_pos = LongHalf - 1 - d
    /\ \E c \in FullRingConfigs :
        /\ pow2_buffer_count = 2 ^ c.caplog
        /\ max_i = [t \in RingThreads |->
                       IF t \in Producers
                       THEN (IF t = 1 THEN 2 ^ c.caplog + 2 - c.np
                             ELSE IF t <= c.np THEN 1 ELSE 0)
                       ELSE (IF t = NumProducers + 1
                             THEN 2 ^ c.caplog + 2 - c.nc
                             ELSE IF t <= NumProducers + c.nc THEN 1 ELSE 0)]
    /\ g_foo = [i \in 0 .. (pow2_buffer_count - 1) |-> OldValue]
    /\ current_pos = [t \in RingThreads |-> -1]
    /\ buffer_pos = [t \in RingThreads |-> 0]
    /\ current = [t \in RingThreads |-> NoValue]
    /\ pc = [t \in RingThreads |-> "idle"]
    /\ count = [t \in RingThreads |-> 0]
    /\ stored = [p \in {ToLong(next_write_pos + i) :
                            i \in 1 .. (pow2_buffer_count + 1)} |-> NoValue]
    /\ consumed = [t \in Consumers |-> <<>>]
    /\ write_claims = <<>>
    /\ read_claims = <<>>

\* ntringb_begin_write, up to the InterlockedIncrement.
BeginWriteClaim(t) ==
    /\ t \in Producers
    /\ pc[t] = "idle"
    /\ count[t] < max_i[t]
    /\ next_write_pos' = InterlockedIncrement(next_write_pos)
    /\ current_pos' = [current_pos EXCEPT ![t] = next_write_pos']
    /\ pc' = [pc EXCEPT ![t] = "begin_write"]
    /\ write_claims' = Append(write_claims, current_pos'[t])
    /\ UNCHANGED <<arcvars, multivars, read_claims,
                   last_write_pos, next_read_pos, last_read_pos,
                   pow2_buffer_count, g_foo, buffer_pos, current, count,
                   max_i, stored, consumed>>

\* ntringb_begin_write: the spin loop exits and the call returns.
BeginWriteReturn(t) ==
    /\ t \in Producers
    /\ pc[t] = "begin_write"
    /\ ~(ntringb_available_write(t) < 1)
    /\ buffer_pos' = [buffer_pos EXCEPT ![t] = BufferPos(current_pos[t])]
    /\ pc' = [pc EXCEPT ![t] = "writable"]
    /\ UNCHANGED <<arcvars, multivars, write_claims, read_claims,
                   next_write_pos, last_write_pos, next_read_pos,
                   last_read_pos, pow2_buffer_count, g_foo, current_pos,
                   current, count, max_i, stored, consumed>>

\* ntringb_poll_begin_write
PollBeginWrite(t) ==
    /\ t \in Producers
    /\ pc[t] = "idle"
    /\ count[t] < max_i[t]
    /\ next_write_pos' = InterlockedIncrement(next_write_pos)
    /\ current_pos' = [current_pos EXCEPT ![t] = next_write_pos']
    /\ buffer_pos' = [buffer_pos EXCEPT ![t] = BufferPos(next_write_pos')]
    /\ pc' = [pc EXCEPT ![t] = "poll_write"]
    /\ write_claims' = Append(write_claims, current_pos'[t])
    /\ UNCHANGED <<arcvars, multivars, read_claims,
                   last_write_pos, next_read_pos, last_read_pos,
                   pow2_buffer_count, g_foo, current, count, max_i,
                   stored, consumed>>

\* ntringb_poll_write_ready
PollWriteReady(t) ==
    /\ t \in Producers
    /\ pc[t] = "poll_write"
    /\ pc' = [pc EXCEPT ![t] = IF 0 < ntringb_available_write(t)
                               THEN "writable" ELSE "poll_write"]
    /\ UNCHANGED <<arcvars, multivars, write_claims, read_claims,
                   next_write_pos, last_write_pos, next_read_pos,
                   last_read_pos, pow2_buffer_count, g_foo, current_pos,
                   buffer_pos, current, count, max_i, stored, consumed>>

\* memcpy(&g_foo[pos], &current, sizeof(FOO)) in foo_producer
PayloadStore(t) ==
    /\ t \in Producers
    /\ pc[t] = "writable"
    /\ g_foo' = [g_foo EXCEPT ![buffer_pos[t]] = Item(t, count[t] + 1)]
    /\ stored' = [stored EXCEPT ![current_pos[t]] = Item(t, count[t] + 1)]
    /\ pc' = [pc EXCEPT ![t] = "dirty"]
    /\ UNCHANGED <<arcvars, multivars, write_claims, read_claims,
                   next_write_pos, last_write_pos, next_read_pos,
                   last_read_pos, pow2_buffer_count, current_pos,
                   buffer_pos, current, count, max_i, consumed>>

\* Mutant: the commit does not wait for its predecessor.
CasWriteUnordered(t) == last_write_pos <= ToLong(current_pos[t] - 1)

\* Mutant: the watermark is exchanged without being compared.
CasWriteBlind(t) == TRUE

\* InterlockedCompareExchange(&last_write_pos, p, p - 1) = p - 1
CasWriteSucceeds(t) == last_write_pos = ToLong(current_pos[t] - 1)

\* ntringb_commit_write: the iteration of the loop whose exchange succeeds.
CommitWrite(t) ==
    /\ t \in Producers
    /\ pc[t] = "dirty"
    /\ CasWriteSucceeds(t)
    /\ last_write_pos' = ToLong(ToLong(current_pos[t] - 1) + 1)
    /\ pc' = [pc EXCEPT ![t] = "idle"]
    /\ count' = [count EXCEPT ![t] = @ + 1]
    /\ UNCHANGED <<arcvars, multivars, write_claims, read_claims,
                   next_write_pos, next_read_pos, last_read_pos,
                   pow2_buffer_count, g_foo, current_pos, buffer_pos,
                   current, max_i, stored, consumed>>

\* ntringb_poll_commit_write
PollCommitWrite(t) ==
    /\ t \in Producers
    /\ pc[t] = "dirty"
    /\ IF CasWriteSucceeds(t)
       THEN /\ last_write_pos' = ToLong(ToLong(current_pos[t] - 1) + 1)
            /\ pc' = [pc EXCEPT ![t] = "idle"]
            /\ count' = [count EXCEPT ![t] = @ + 1]
       ELSE UNCHANGED <<last_write_pos, pc, count>>
    /\ UNCHANGED <<arcvars, multivars, write_claims, read_claims,
                   next_write_pos, next_read_pos, last_read_pos,
                   pow2_buffer_count, g_foo, current_pos, buffer_pos,
                   current, max_i, stored, consumed>>

\* ntringb_begin_read, up to the InterlockedIncrement.
BeginReadClaim(t) ==
    /\ t \in Consumers
    /\ pc[t] = "idle"
    /\ count[t] < max_i[t]
    /\ next_read_pos' = InterlockedIncrement(next_read_pos)
    /\ current_pos' = [current_pos EXCEPT ![t] = next_read_pos']
    /\ pc' = [pc EXCEPT ![t] = "begin_read"]
    /\ read_claims' = Append(read_claims, current_pos'[t])
    /\ UNCHANGED <<arcvars, multivars, write_claims,
                   next_write_pos, last_write_pos, last_read_pos,
                   pow2_buffer_count, g_foo, buffer_pos, current, count,
                   max_i, stored, consumed>>

\* ntringb_begin_read: the spin loop exits and the call returns.
BeginReadReturn(t) ==
    /\ t \in Consumers
    /\ pc[t] = "begin_read"
    /\ ~(ntringb_available_read(t) < 1)
    /\ buffer_pos' = [buffer_pos EXCEPT ![t] = BufferPos(current_pos[t])]
    /\ pc' = [pc EXCEPT ![t] = "readable"]
    /\ UNCHANGED <<arcvars, multivars, write_claims, read_claims,
                   next_write_pos, last_write_pos, next_read_pos,
                   last_read_pos, pow2_buffer_count, g_foo, current_pos,
                   current, count, max_i, stored, consumed>>

\* ntringb_poll_begin_read
PollBeginRead(t) ==
    /\ t \in Consumers
    /\ pc[t] = "idle"
    /\ count[t] < max_i[t]
    /\ next_read_pos' = InterlockedIncrement(next_read_pos)
    /\ current_pos' = [current_pos EXCEPT ![t] = next_read_pos']
    /\ buffer_pos' = [buffer_pos EXCEPT ![t] = BufferPos(next_read_pos')]
    /\ pc' = [pc EXCEPT ![t] = "poll_read"]
    /\ read_claims' = Append(read_claims, current_pos'[t])
    /\ UNCHANGED <<arcvars, multivars, write_claims,
                   next_write_pos, last_write_pos, last_read_pos,
                   pow2_buffer_count, g_foo, current, count, max_i,
                   stored, consumed>>

\* ntringb_poll_read_ready
PollReadReady(t) ==
    /\ t \in Consumers
    /\ pc[t] = "poll_read"
    /\ pc' = [pc EXCEPT ![t] = IF 0 < ntringb_available_read(t)
                               THEN "readable" ELSE "poll_read"]
    /\ UNCHANGED <<arcvars, multivars, write_claims, read_claims,
                   next_write_pos, last_write_pos, next_read_pos,
                   last_read_pos, pow2_buffer_count, g_foo, current_pos,
                   buffer_pos, current, count, max_i, stored, consumed>>

\* memcpy(&current, &g_foo[pos], sizeof(FOO)) in foo_consumer
PayloadLoad(t) ==
    /\ t \in Consumers
    /\ pc[t] = "readable"
    /\ current' = [current EXCEPT ![t] = g_foo[buffer_pos[t]]]
    /\ consumed' = [consumed EXCEPT ![t] = Append(@, g_foo[buffer_pos[t]])]
    /\ pc' = [pc EXCEPT ![t] = "loaded"]
    /\ UNCHANGED <<arcvars, multivars, write_claims, read_claims,
                   next_write_pos, last_write_pos, next_read_pos,
                   last_read_pos, pow2_buffer_count, g_foo, current_pos,
                   buffer_pos, count, max_i, stored>>

\* Mutant: the commit does not wait for its predecessor.
CasReadUnordered(t) == last_read_pos <= ToLong(current_pos[t] - 1)

\* Mutant: the watermark is exchanged without being compared.
CasReadBlind(t) == TRUE

\* InterlockedCompareExchange(&last_read_pos, p, p - 1) = p - 1
CasReadSucceeds(t) == last_read_pos = ToLong(current_pos[t] - 1)

\* ntringb_commit_read: the iteration of the loop whose exchange succeeds.
CommitRead(t) ==
    /\ t \in Consumers
    /\ pc[t] = "loaded"
    /\ CasReadSucceeds(t)
    /\ last_read_pos' = ToLong(ToLong(current_pos[t] - 1) + 1)
    /\ pc' = [pc EXCEPT ![t] = "idle"]
    /\ count' = [count EXCEPT ![t] = @ + 1]
    /\ UNCHANGED <<arcvars, multivars, write_claims, read_claims,
                   next_write_pos, last_write_pos, next_read_pos,
                   pow2_buffer_count, g_foo, current_pos, buffer_pos,
                   current, max_i, stored, consumed>>

\* ntringb_poll_commit_read
PollCommitRead(t) ==
    /\ t \in Consumers
    /\ pc[t] = "loaded"
    /\ IF CasReadSucceeds(t)
       THEN /\ last_read_pos' = ToLong(ToLong(current_pos[t] - 1) + 1)
            /\ pc' = [pc EXCEPT ![t] = "idle"]
            /\ count' = [count EXCEPT ![t] = @ + 1]
       ELSE UNCHANGED <<last_read_pos, pc, count>>
    /\ UNCHANGED <<arcvars, multivars, write_claims, read_claims,
                   next_write_pos, last_write_pos, next_read_pos,
                   pow2_buffer_count, g_foo, current_pos, buffer_pos,
                   current, max_i, stored, consumed>>

RingNext ==
    \E t \in RingThreads :
          \/ BeginWriteClaim(t)
          \/ BeginWriteReturn(t)
          \/ PollBeginWrite(t)
          \/ PollWriteReady(t)
          \/ PayloadStore(t)
          \/ CommitWrite(t)
          \/ PollCommitWrite(t)
          \/ BeginReadClaim(t)
          \/ BeginReadReturn(t)
          \/ PollBeginRead(t)
          \/ PollReadReady(t)
          \/ PayloadLoad(t)
          \/ CommitRead(t)
          \/ PollCommitRead(t)


(***************************************************************************)
(* ntarc.h and the shared-pointer example                                  *)
(***************************************************************************)
\* NTARC values: { 0, 0 }, and special_chunk = { 1, 0 }.
NullArc == [p_control_block |-> 0, p_data |-> 0]
special_chunk == [p_control_block |-> 1, p_data |-> 0]

\* The NTARC foo_new makes of object k, and the object of a control block.
ArcOf(k) == [p_control_block |-> 2 * k, p_data |-> 2 * k + 1]
ObjOf(chunk) == chunk.p_control_block \div 2

\* PVOID values: NULL, and the address of a field of the control block at
\* address cb.
NULL == [base |-> 0, field |-> "none"]
FieldAddress(cb, name) == [base |-> cb, field |-> name]

\* NTARC_PDESTROY_CONTEXT(p_chunk)
NTARC_PDESTROY_CONTEXT(p_chunk) ==
    FieldAddress(p_chunk.p_control_block, "p_destroy_context")

\* The call (*pfn_destroy)(p_context, p_arc), p_arc pointing to a variable
\* that holds the pair chunk: the arguments as foo_destroy receives them.
DestroyCall(p_context, chunk) == [p_context |-> p_context, p_arc |-> chunk]

\* ntarc_is_equal
ntarc_is_equal(p_first, p_second) ==
    p_first.p_control_block = p_second.p_control_block

\* What a read of the reference_count of object k can yield: its value, or
\* anything once the control block is freed.
RefValues(k) ==
    IF destroys[k] > 0 THEN {0, 1, reference_count[k]}
    ELSE {reference_count[k]}

\* Mutant: the post-decrement value is returned.
drop_reference_post(r) == InterlockedDecrement(r)

\* ntarc_drop_reference: the value returned when the count read is r.
drop_reference_result(r) == ToLong(1 + InterlockedDecrement(r))

\* Mutant: the pair is copied and the reference is not counted.
clone_without_increment(p_pointer, v, u) ==
    /\ v' = [v EXCEPT ![u] = p_pointer]
    /\ UNCHANGED <<reference_count, uaf>>

\* ntarc_clone(p_pointer, p_result), p_result being variable v of thread u:
\* the effect on the reference counts and on v.
ntarc_clone(p_pointer, v, u) ==
    /\ IF 0 # p_pointer.p_data
       THEN \E r \in RefValues(ObjOf(p_pointer)) :
               /\ reference_count' =
                      [reference_count EXCEPT ![ObjOf(p_pointer)] =
                          InterlockedIncrement(r)]
               /\ uaf' = (uaf \/ destroys[ObjOf(p_pointer)] > 0)
       ELSE UNCHANGED <<reference_count, uaf>>
    /\ v' = [v EXCEPT ![u] = p_pointer]

\* Mutant: a null pair is reported as the last reference.
drop_reference_null_as_last(p_pointer, t) ==
    IF 0 = p_pointer.p_data
    THEN /\ ref_count' = [ref_count EXCEPT ![t] = 1]
         /\ UNCHANGED <<reference_count, uaf>>
    ELSE \E r \in RefValues(ObjOf(p_pointer)) :
            /\ reference_count' =
                   [reference_count EXCEPT ![ObjOf(p_pointer)] =
                       InterlockedDecrement(r)]
            /\ ref_count' = [ref_count EXCEPT ![t] = drop_reference_result(r)]
            /\ uaf' = (uaf \/ destroys[ObjOf(p_pointer)] > 0)

\* ntarc_drop_reference(p_pointer) in thread t: the effect on the
\* reference counts and the value returned into ref_count.
ntarc_drop_reference(p_pointer, t) ==
    IF 0 = p_pointer.p_data
    THEN /\ ref_count' = [ref_count EXCEPT ![t] = 0]
         /\ UNCHANGED <<reference_count, uaf>>
    ELSE \E r \in RefValues(ObjOf(p_pointer)) :
            /\ reference_count' =
                   [reference_count EXCEPT ![ObjOf(p_pointer)] =
                       InterlockedDecrement(r)]
            /\ ref_count' = [ref_count EXCEPT ![t] = drop_reference_result(r)]
            /\ uaf' = (uaf \/ destroys[ObjOf(p_pointer)] > 0)

\* Mutant: the destructor is tied to a returned count of 0.
drop_data_on_zero(p_pointer, reference_count_arg) ==
    IF 0 = reference_count_arg /\ 0 # p_pointer.p_data
    THEN /\ destroys' = [destroys EXCEPT ![ObjOf(p_pointer)] = @ + 1]
         /\ destroy_args' =
                [destroy_args EXCEPT ![ObjOf(p_pointer)] =
                    Append(@, DestroyCall(NTARC_PDESTROY_CONTEXT(p_pointer),
                                          p_pointer))]
    ELSE UNCHANGED <<destroys, destroy_args>>

\* Mutant: the destructor runs whenever a reference is dropped.
drop_data_always(p_pointer, reference_count_arg) ==
    IF 0 # p_pointer.p_data
    THEN /\ destroys' = [destroys EXCEPT ![ObjOf(p_pointer)] = @ + 1]
         /\ destroy_args' =
                [destroy_args EXCEPT ![ObjOf(p_pointer)] =
                    Append(@, DestroyCall(NTARC_PDESTROY_CONTEXT(p_pointer),
                                          p_pointer))]
    ELSE UNCHANGED <<destroys, destroy_args>>

\* ntarc_drop_data(p_pointer, reference_count) with foo_destroy as the
\* destructor: the effect on the objects.
ntarc_drop_data(p_pointer, reference_count_arg) ==
    IF 1 = reference_count_arg /\ 0 # p_pointer.p_data
    THEN /\ destroys' = [destroys EXCEPT ![ObjOf(p_pointer)] = @ + 1]
         /\ destroy_args' =
                [destroy_args EXCEPT ![ObjOf(p_pointer)] =
                    Append(@, DestroyCall(NTARC_PDESTROY_CONTEXT(p_pointer),
                                          p_pointer))]
    ELSE UNCHANGED <<destroys, destroy_args>>

\* The ring is not in use by the shared-pointer program.
RingIdle ==
    /\ next_write_pos = -1
    /\ last_write_pos = -1
    /\ next_read_pos = -1
    /\ last_read_pos = -1
    /\ pow2_buffer_count = 2
    /\ g_foo = [i \in 0 .. 1 |-> NoValue]
    /\ current_pos = [t \in RingThreads |-> -1]
    /\ buffer_pos = [t \in RingThreads |-> 0]
    /\ current = [t \in RingThreads |-> NoValue]
    /\ pc = [t \in RingThreads |-> "idle"]
    /\ count = [t \in RingThreads |-> 0]
    /\ max_i = [t \in RingThreads |-> 0]
    /\ stored = [p \in SeqNums |-> NoValue]
    /\ consumed = [t \in Consumers |-> <<>>]
    /\ write_claims = <<>>
    /\ read_claims = <<>>

\* volatile NTARC g_foo = { 0, 0 }, no object allocated, no thread started.
ArcInit ==
    /\ g_arc = NullArc
    /\ reference_count = [k \in Objects |-> 0]
    /\ destroys = [k \in Objects |-> 0]
    /\ next_obj = 1
    /\ apc = [t \in ArcThreads |-> "idle"]
    /\ foo = [t \in ArcThreads |-> NullArc]
    /\ old_chunk = [t \in ArcThreads |-> NullArc]
    /\ new_chunk = [t \in ArcThreads |-> NullArc]
    /\ ref_count = [t \in ArcThreads |-> 0]
    /\ iter = [t \in ArcThreads |-> 0]
    /\ uaf = FALSE
    /\ reg = NullArc
    /\ lin = [t \in ArcThreads |-> NullArc]
    /\ p_destroy_context = [k \in Objects |-> NULL]
    /\ destroy_args = [k \in Objects |-> <<>>]

\* foo_new in foo_thread1: malloc of the data and of the control block,
\* then ntarc_new (ntarc_control_block_new with reference_count 1 and
\* ntarc_new_with_control_block).
FooNew(t) ==
    /\ t \in Writers
    /\ apc[t] = "idle"
    /\ iter[t] < StoresPerWriter
    /\ next_obj \in Objects
    /\ reference_count' = [reference_count EXCEPT ![next_obj] = 1]
    /\ p_destroy_context' = [p_destroy_context EXCEPT ![next_obj] = NULL]
    /\ foo' = [foo EXCEPT ![t] = ArcOf(next_obj)]
    /\ next_obj' = next_obj + 1
    /\ apc' = [apc EXCEPT ![t] = "store_clone"]
    /\ UNCHANGED <<ringvars, multivars, destroy_args,
                   g_arc, destroys, old_chunk, new_chunk, ref_count, iter,
                   uaf, reg, lin>>

\* main: ntarc_atomic_store(&g_foo, &null_foo) once every thread has ended.
MainStoreNull(t) ==
    /\ t = MainThread
    /\ apc[t] = "idle"
    /\ \A u \in Writers : apc[u] = "idle" /\ iter[u] = StoresPerWriter
    /\ \A u \in Readers : apc[u] = "idle" /\ iter[u] = LoadsPerReader
    /\ foo' = [foo EXCEPT ![t] = NullArc]
    /\ apc' = [apc EXCEPT ![t] = "store_clone"]
    /\ UNCHANGED <<ringvars, multivars, p_destroy_context, destroy_args,
                   g_arc, reference_count, destroys, next_obj, old_chunk,
                   new_chunk, ref_count, iter, uaf, reg, lin>>

\* ntarc_atomic_store: ntarc_clone(p_pointer, &new_chunk)
StoreClone(t) ==
    /\ apc[t] = "store_clone"
    /\ ntarc_clone(foo[t], new_chunk, t)
    /\ apc' = [apc EXCEPT ![t] = "begin_cb"]
    /\ UNCHANGED <<ringvars, multivars, p_destroy_context, destroy_args,
                   g_arc, destroys, next_obj, foo, old_chunk, ref_count,
                   iter, reg, lin>>

\* foo_thread2 starts: ntarc_atomic_load(&g_foo, &foo) is called.
LoadCall(t) ==
    /\ t \in Readers
    /\ apc[t] = "idle"
    /\ iter[t] < LoadsPerReader
    /\ apc' = [apc EXCEPT ![t] = "begin_cb"]
    /\ UNCHANGED <<ringvars, multivars, p_destroy_context, destroy_args,
                   g_arc, reference_count, destroys, next_obj, foo,
                   old_chunk, new_chunk, ref_count, iter, uaf, reg, lin>>

\* ntarc_atomic_begin: old_chunk.p_control_block = p_store->p_control_block
AtomicBeginReadCb(t) ==
    /\ apc[t] = "begin_cb"
    /\ old_chunk' = [old_chunk EXCEPT
                        ![t].p_control_block = g_arc.p_control_block]
    /\ apc' = [apc EXCEPT ![t] = "begin_data"]
    /\ UNCHANGED <<ringvars, multivars, p_destroy_context, destroy_args,
                   g_arc, reference_count, destroys, next_obj, foo,
                   new_chunk, ref_count, iter, uaf, reg, lin>>

\* ntarc_atomic_begin: old_chunk.p_data = p_store->p_data
AtomicBeginReadData(t) ==
    /\ apc[t] = "begin_data"
    /\ old_chunk' = [old_chunk EXCEPT ![t].p_data = g_arc.p_data]
    /\ apc' = [apc EXCEPT ![t] = "begin_cas"]
    /\ UNCHANGED <<ringvars, multivars, p_destroy_context, destroy_args,
                   g_arc, reference_count, destroys, next_obj, foo,
                   new_chunk, ref_count, iter, uaf, reg, lin>>

\* Mutant: the exchange is not conditional on the value read.
begin_cas_blind(t) == TRUE

\* Mutant: the exchange never takes place.
begin_cas_never(t) == FALSE

\* NTARC_COMPARE_EXCHANGE(p_store, special_chunk, old_chunk) succeeds.
begin_cas_succeeds(t) == g_arc = old_chunk[t]

\* Mutant: the loop does not test for the special chunk.
begin_sees_nothing_special(t) == FALSE

\* ntarc_is_equal(&old_chunk, &special_chunk) in the loop condition.
begin_sees_special(t) == ntarc_is_equal(old_chunk[t], special_chunk)

\* ntarc_atomic_begin: the loop condition.  The loop is left with the cell
\* holding special_chunk, or entered again.
AtomicBeginCas(t) ==
    /\ apc[t] = "begin_cas"
    /\ IF ~begin_sees_special(t) /\ begin_cas_succeeds(t)
       THEN /\ g_arc' = special_chunk
            /\ apc' = [apc EXCEPT ![t] = IF t \in Readers THEN "load_clone"
                                         ELSE "store_drop_reference"]
            /\ lin' = [lin EXCEPT ![t] = IF t \in Readers THEN reg ELSE @]
            /\ UNCHANGED old_chunk
       ELSE /\ apc' = [apc EXCEPT ![t] = "begin_cb"]
            /\ old_chunk' = [old_chunk EXCEPT ![t] = NullArc]
            /\ UNCHANGED <<g_arc, lin>>
    /\ UNCHANGED <<ringvars, multivars, p_destroy_context, destroy_args,
                   reference_count, destroys, next_obj, foo, new_chunk,
                   ref_count, iter, uaf, reg>>

\* Mutant: the cell is released before the old count is decremented.
StoreDropReferenceReleased(t) ==
    /\ apc[t] = "store_drop_reference"
    /\ ntarc_drop_reference(old_chunk[t], t)
    /\ g_arc' = new_chunk[t]
    /\ apc' = [apc EXCEPT ![t] = "store_commit"]
    /\ UNCHANGED <<ringvars, multivars, p_destroy_context, destroy_args,
                   destroys, next_obj, foo, old_chunk, new_chunk,
                   iter, reg, lin>>

\* ntarc_atomic_store: old_reference_count = ntarc_drop_reference(&old_chunk)
StoreDropReference(t) ==
    /\ apc[t] = "store_drop_reference"
    /\ ntarc_drop_reference(old_chunk[t], t)
    /\ apc' = [apc EXCEPT ![t] = "store_commit"]
    /\ UNCHANGED <<ringvars, multivars, p_destroy_context, destroy_args,
                   g_arc, destroys, next_obj, foo, old_chunk, new_chunk,
                   iter, reg, lin>>

\* Mutant: the exchange of the commit does not take place.
atomic_commit_no_exchange(p_pointer) == g_arc

\* ntarc_atomic_commit(p_store, p_pointer): the cell after
\* NTARC_COMPARE_EXCHANGE(p_store, *p_pointer, special_chunk).
ntarc_atomic_commit(p_pointer) ==
    IF g_arc = special_chunk THEN p_pointer ELSE g_arc

\* Mutant: the commit of a store puts the old pair back.
StoreCommitPutsBack(t) ==
    /\ apc[t] = "store_commit"
    /\ g_arc' = ntarc_atomic_commit(old_chunk[t])
    /\ reg' = old_chunk[t]
    /\ apc' = [apc EXCEPT ![t] = "store_drop_data"]
    /\ UNCHANGED <<ringvars, multivars, p_destroy_context, destroy_args,
                   reference_count, destroys, next_obj, foo, old_chunk,
                   new_chunk, ref_count, iter, uaf, lin>>

\* ntarc_atomic_store: ntarc_atomic_commit(p_store, &new_chunk)
StoreCommit(t) ==
    /\ apc[t] = "store_commit"
    /\ g_arc' = ntarc_atomic_commit(new_chunk[t])
    /\ reg' = new_chunk[t]
    /\ apc' = [apc EXCEPT ![t] = "store_drop_data"]
    /\ UNCHANGED <<ringvars, multivars, p_destroy_context, destroy_args,
                   reference_count, destroys, next_obj, foo, old_chunk,
                   new_chunk, ref_count, iter, uaf, lin>>

\* ntarc_atomic_store: ntarc_drop_data(&old_chunk, old_reference_count),
\* and the call returns.
StoreDropData(t) ==
    /\ apc[t] = "store_drop_data"
    /\ ntarc_drop_data(old_chunk[t], ref_count[t])
    /\ old_chunk' = [old_chunk EXCEPT ![t] = NullArc]
    /\ new_chunk' = [new_chunk EXCEPT ![t] = NullArc]
    /\ ref_count' = [ref_count EXCEPT ![t] = 0]
    /\ apc' = [apc EXCEPT ![t] = IF t = MainThread THEN "done" ELSE "holding"]
    /\ UNCHANGED <<ringvars, multivars, p_destroy_context,
                   g_arc, reference_count, next_obj, foo, iter, uaf, reg,
                   lin>>

\* ntarc_atomic_load: ntarc_clone(&old_chunk, p_result)
LoadClone(t) ==
    /\ apc[t] = "load_clone"
    /\ ntarc_clone(old_chunk[t], foo, t)
    /\ apc' = [apc EXCEPT ![t] = "load_commit"]
    /\ UNCHANGED <<ringvars, multivars, p_destroy_context, destroy_args,
                   g_arc, destroys, next_obj, old_chunk, new_chunk,
                   ref_count, iter, reg, lin>>

\* ntarc_atomic_load: ntarc_atomic_commit(p_store, &old_chunk), and the
\* call returns.
LoadCommit(t) ==
    /\ apc[t] = "load_commit"
    /\ g_arc' = ntarc_atomic_commit(old_chunk[t])
    /\ old_chunk' = [old_chunk EXCEPT ![t] = NullArc]
    /\ apc' = [apc EXCEPT ![t] = "holding"]
    /\ UNCHANGED <<ringvars, multivars, p_destroy_context, destroy_args,
                   reference_count, destroys, next_obj, foo, new_chunk,
                   ref_count, iter, uaf, reg, lin>>

\* ntarc_drop: ref_count = ntarc_drop_reference(p_pointer)
DropReference(t) ==
    /\ apc[t] = "holding"
    /\ ntarc_drop_reference(foo[t], t)
    /\ apc' = [apc EXCEPT ![t] = "drop_data"]
    /\ UNCHANGED <<ringvars, multivars, p_destroy_context, destroy_args,
                   g_arc, destroys, next_obj, foo, old_chunk, new_chunk,
                   iter, reg, lin>>

\* ntarc_drop: ntarc_drop_data(p_pointer, ref_count), and the thread's
\* function ends.
DropData(t) ==
    /\ apc[t] = "drop_data"
    /\ ntarc_drop_data(foo[t], ref_count[t])
    /\ foo' = [foo EXCEPT ![t] = NullArc]
    /\ ref_count' = [ref_count EXCEPT ![t] = 0]
    /\ lin' = [lin EXCEPT ![t] = NullArc]
    /\ iter' = [iter EXCEPT ![t] = @ + 1]
    /\ apc' = [apc EXCEPT ![t] = "idle"]
    /\ UNCHANGED <<ringvars, multivars, p_destroy_context,
                   g_arc, reference_count, next_obj, old_chunk, new_chunk,
                   uaf, reg>>

ArcNext ==
    \E t \in ArcThreads :
          \/ FooNew(t)
          \/ MainStoreNull(t)
          \/ StoreClone(t)
          \/ LoadCall(t)
          \/ AtomicBeginReadCb(t)
          \/ AtomicBeginReadData(t)
          \/ AtomicBeginCas(t)
          \/ StoreDropReference(t)
          \/ StoreCommit(t)
          \/ StoreDropData(t)
          \/ LoadClone(t)
          \/ LoadCommit(t)
          \/ DropReference(t)
          \/ DropData(t)

\* A shared structure is given up while its users are still at work:
\* ntarc_atomic_store(&g_foo, &null_foo) is called once every
\* ntarc_atomic_store of a value has returned, whatever the readers are
\* doing and whoever still holds a local pair.
ResetStoreNull(t) ==
    /\ t = MainThread
    /\ apc[t] = "idle"
    /\ \A u \in Writers :
           \/ apc[u] \in {"holding", "drop_data"}
                  /\ iter[u] = StoresPerWriter - 1
           \/ apc[u] = "idle" /\ iter[u] = StoresPerWriter
    /\ foo' = [foo EXCEPT ![t] = NullArc]
    /\ apc' = [apc EXCEPT ![t] = "store_clone"]
    /\ UNCHANGED <<ringvars, multivars, p_destroy_context, destroy_args,
                   g_arc, reference_count, destroys, next_obj, old_chunk,
                   new_chunk, ref_count, iter, uaf, reg, lin>>

ResetNext ==
    \E t \in ArcThreads :
          \/ FooNew(t)
          \/ ResetStoreNull(t)
          \/ StoreClone(t)
          \/ LoadCall(t)
          \/ AtomicBeginReadCb(t)
          \/ AtomicBeginReadData(t)
          \/ AtomicBeginCas(t)
          \/ StoreDropReference(t)
          \/ StoreCommit(t)
          \/ StoreDropData(t)
          \/ LoadClone(t)
          \/ LoadCommit(t)
          \/ DropReference(t)
          \/ DropData(t)

\* A thread that holds a local pair stores it once more:
\* ntarc_atomic_store(&g_foo, &foo) with the foo it has stored before and
\* not yet dropped, which the cell may still hold.
StoreAgain(t) ==
    /\ t \in Writers
    /\ apc[t] = "holding"
    /\ apc' = [apc EXCEPT ![t] = "store_clone"]
    /\ UNCHANGED <<ringvars, multivars, p_destroy_context, destroy_args,
                   g_arc, reference_count, destroys, next_obj, foo,
                   old_chunk, new_chunk, ref_count, iter, uaf, reg, lin>>

RestoreNext ==
    \E t \in ArcThreads :
          \/ FooNew(t)
          \/ MainStoreNull(t)
          \/ StoreAgain(t)
          \/ StoreClone(t)
          \/ LoadCall(t)
          \/ AtomicBeginReadCb(t)
          \/ AtomicBeginReadData(t)
          \/ AtomicBeginCas(t)
          \/ StoreDropReference(t)
          \/ StoreCommit(t)
          \/ StoreDropData(t)
          \/ LoadClone(t)
          \/ LoadCommit(t)
          \/ DropReference(t)
          \/ DropData(t)

\* A clone/drop run: ntarc_new has made object 1 in main's variable.
CloneInit ==
    /\ g_arc = NullArc
    /\ reference_count = [k \in Objects |-> IF k = 1 THEN 1 ELSE 0]
    /\ destroys = [k \in Objects |-> 0]
    /\ next_obj = 2
    /\ apc = [t \in ArcThreads |-> IF t = MainThread THEN "holding" ELSE "idle"]
    /\ foo = [t \in ArcThreads |-> IF t = MainThread THEN ArcOf(1) ELSE NullArc]
    /\ old_chunk = [t \in ArcThreads |-> NullArc]
    /\ new_chunk = [t \in ArcThreads |-> NullArc]
    /\ ref_count = [t \in ArcThreads |-> 0]
    /\ iter = [t \in ArcThreads |-> 0]
    /\ uaf = FALSE
    /\ reg = NullArc
    /\ lin = [t \in ArcThreads |-> NullArc]
    /\ p_destroy_context = [k \in Objects |-> NULL]
    /\ destroy_args = [k \in Objects |-> <<>>]

\* ntarc_clone(&foo of t, &foo of u): thread t hands a clone to thread u.
CloneTo(t, u) ==
    /\ apc[t] = "holding"
    /\ apc[u] = "idle"
    /\ iter[u] < ClonesPerHolder
    /\ ntarc_clone(foo[t], foo, u)
    /\ apc' = [apc EXCEPT ![u] = "holding"]
    /\ UNCHANGED <<ringvars, multivars, p_destroy_context, destroy_args,
                   g_arc, destroys, next_obj, old_chunk, new_chunk,
                   ref_count, iter, reg, lin>>

CloneNext ==
    \/ \E t, u \in ArcThreads : CloneTo(t, u)
    \/ \E t \in ArcThreads : DropReference(t)
    \/ \E t \in ArcThreads : DropData(t)

(***************************************************************************)
(* ntringb.h: several rings, each written by its own blocking producer     *)
(* and all read by one thread that polls them in turn                      *)
(***************************************************************************)
Rings == 1 .. NumRings

NextRing(r) == (r % NumRings) + 1

\* ntringb_init
NewRing(cap) ==
    [next_write_pos |-> -1, last_write_pos |-> -1, next_read_pos |-> -1,
     last_read_pos |-> -1, pow2_buffer_count |-> cap]

\* ntringb_pos_init, and the position of the thread owning the cursor.
NewPos(at) == [current_pos |-> -1, buffer_pos |-> 0, pc |-> at, count |-> 0]

\* ntringb_available_write on a cursor of ring p_ringb.
available_write_of(p_ringb, pos) ==
    ToLong(ToLong(ToLong(p_ringb.pow2_buffer_count + p_ringb.last_read_pos)
                  - pos.current_pos) + 1)

\* Mutant: one element too many is reported readable.
available_read_of_plus_one(p_ringb, pos) ==
    ToLong(ToLong(p_ringb.last_write_pos - pos.current_pos) + 2)

\* ntringb_available_read on a cursor of ring p_ringb.
available_read_of(p_ringb, pos) ==
    ToLong(ToLong(p_ringb.last_write_pos - pos.current_pos) + 1)

\* current_pos & (pow2_buffer_count - 1) on ring p_ringb.
buffer_pos_of(p_ringb, current_pos_arg) ==
    BitAnd(current_pos_arg, ToLong(p_ringb.pow2_buffer_count - 1))

\* The rings are set up and no thread has started.
MultiInit ==
    /\ \E caplog \in 1 .. MaxCapLog2 :
           /\ rings = [r \in Rings |-> NewRing(2 ^ caplog)]
           /\ bufs = [r \in Rings |-> [i \in 0 .. (2 ^ caplog - 1) |-> NoValue]]
    /\ wpos = [r \in Rings |-> NewPos("idle")]
    /\ rpos = [r \in Rings |-> NewPos("idle")]
    /\ visit = 1
    /\ received = [r \in Rings |-> <<>>]

\* The rings are not in use by the other programs.
MultiIdle ==
    /\ rings = [r \in Rings |-> NewRing(2)]
    /\ bufs = [r \in Rings |-> [i \in 0 .. 1 |-> NoValue]]
    /\ wpos = [r \in Rings |-> NewPos("idle")]
    /\ rpos = [r \in Rings |-> NewPos("idle")]
    /\ visit = 1
    /\ received = [r \in Rings |-> <<>>]

\* ntringb_begin_write on ring r by its producer, up to the
\* InterlockedIncrement.
RingBeginWriteClaim(r) ==
    /\ wpos[r].pc = "idle"
    /\ wpos[r].count < RingItems
    /\ rings' = [rings EXCEPT ![r].next_write_pos = InterlockedIncrement(@)]
    /\ wpos' = [wpos EXCEPT ![r].current_pos = rings'[r].next_write_pos,
                            ![r].pc = "begin_write"]
    /\ UNCHANGED <<ringvars, arcvars, bufs, rpos, visit, received>>

\* ntringb_begin_write on ring r: the spin loop exits, the call returns.
RingBeginWriteReturn(r) ==
    /\ wpos[r].pc = "begin_write"
    /\ ~(available_write_of(rings[r], wpos[r]) < 1)
    /\ wpos' = [wpos EXCEPT
                   ![r].buffer_pos = buffer_pos_of(rings[r], wpos[r].current_pos),
                   ![r].pc = "writable"]
    /\ UNCHANGED <<ringvars, arcvars, rings, bufs, rpos, visit, received>>

\* memcpy(&g_foo[pos], &current, sizeof(FOO)) by the producer of ring r.
RingPayloadStore(r) ==
    /\ wpos[r].pc = "writable"
    /\ bufs' = [bufs EXCEPT ![r][wpos[r].buffer_pos] = Item(r, wpos[r].count + 1)]
    /\ wpos' = [wpos EXCEPT ![r].pc = "dirty"]
    /\ UNCHANGED <<ringvars, arcvars, rings, rpos, visit, received>>

\* ntringb_commit_write on ring r: the iteration whose exchange succeeds.
RingCommitWrite(r) ==
    /\ wpos[r].pc = "dirty"
    /\ rings[r].last_write_pos = ToLong(wpos[r].current_pos - 1)
    /\ rings' = [rings EXCEPT ![r].last_write_pos =
                                 ToLong(ToLong(wpos[r].current_pos - 1) + 1)]
    /\ wpos' = [wpos EXCEPT ![r].pc = "idle", ![r].count = @ + 1]
    /\ UNCHANGED <<ringvars, arcvars, bufs, rpos, visit, received>>

\* ntringb_poll_begin_read on the ring the consumer is visiting, once per
\* item.
PollingBeginRead(r) ==
    /\ visit = r
    /\ rpos[r].pc = "idle"
    /\ rpos[r].count < RingItems
    /\ rings' = [rings EXCEPT ![r].next_read_pos = InterlockedIncrement(@)]
    /\ rpos' = [rpos EXCEPT
                   ![r].current_pos = rings'[r].next_read_pos,
                   ![r].buffer_pos =
                       buffer_pos_of(rings[r], rings'[r].next_read_pos),
                   ![r].pc = "poll_read"]
    /\ UNCHANGED <<ringvars, arcvars, bufs, wpos, visit, received>>

\* ntringb_poll_read_ready on the visited ring: on TRUE the consumer goes
\* on to the slot, on FALSE it goes to the next ring.
PollingReadReady(r) ==
    /\ visit = r
    /\ rpos[r].pc = "poll_read"
    /\ IF 0 < available_read_of(rings[r], rpos[r])
       THEN /\ rpos' = [rpos EXCEPT ![r].pc = "readable"]
            /\ UNCHANGED visit
       ELSE /\ visit' = NextRing(r)
            /\ UNCHANGED rpos
    /\ UNCHANGED <<ringvars, arcvars, rings, bufs, wpos, received>>

\* memcpy(&current, &g_foo[pos], sizeof(FOO)) from the visited ring.
PollingPayloadLoad(r) ==
    /\ visit = r
    /\ rpos[r].pc = "readable"
    /\ received' = [received EXCEPT ![r] = Append(@, bufs[r][rpos[r].buffer_pos])]
    /\ rpos' = [rpos EXCEPT ![r].pc = "loaded"]
    /\ UNCHANGED <<ringvars, arcvars, rings, bufs, wpos, visit>>

\* ntringb_poll_commit_read on the visited ring; the consumer then goes to
\* the next ring, and comes back to the commit if it returned FALSE.
PollingCommitRead(r) ==
    /\ visit = r
    /\ rpos[r].pc = "loaded"
    /\ IF rings[r].last_read_pos = ToLong(rpos[r].current_pos - 1)
       THEN /\ rings' = [rings EXCEPT ![r].last_read_pos =
                                 ToLong(ToLong(rpos[r].current_pos - 1) + 1)]
            /\ rpos' = [rpos EXCEPT ![r].pc = "idle", ![r].count = @ + 1]
       ELSE UNCHANGED <<rings, rpos>>
    /\ visit' = NextRing(r)
    /\ UNCHANGED <<ringvars, arcvars, bufs, wpos, received>>

\* The visited ring has delivered all its items: on to the next one, as
\* long as some ring has not.
PollingSkip(r) ==
    /\ visit = r
    /\ rpos[r].pc = "idle"
    /\ rpos[r].count = RingItems
    /\ \E q \in Rings : rpos[q].count < RingItems
    /\ visit' = NextRing(r)
    /\ UNCHANGED <<ringvars, arcvars, rings, bufs, wpos, rpos, received>>

\* The steps of the producer of ring r, and those of the consumer.
RingProducerNext(r) ==
    \/ RingBeginWriteClaim(r)
    \/ RingBeginWriteReturn(r)
    \/ RingPayloadStore(r)
    \/ RingCommitWrite(r)

PollingConsumerNext ==
    \E r \in Rings :
        \/ PollingBeginRead(r)
        \/ PollingReadReady(r)
        \/ PollingPayloadLoad(r)
        \/ PollingCommitRead(r)
        \/ PollingSkip(r)

MultiNext ==
    \E r \in Rings :
        \/ RingBeginWriteClaim(r)
        \/ RingBeginWriteReturn(r)
        \/ RingPayloadStore(r)
        \/ RingCommitWrite(r)
        \/ PollingBeginRead(r)
        \/ PollingReadReady(r)
        \/ PollingPayloadLoad(r)
        \/ PollingCommitRead(r)
        \/ PollingSkip(r)

\* The ring program: main_mt with the shared pointer out of use.
InitRing == RingInit /\ ArcInit /\ MultiIdle
SpecRing == InitRing /\ [][RingNext]_vars

\* The steps of one ring thread, and the ring program under a scheduler
\* that lets every thread run again and again.
ThreadNext(t) ==
    \/ BeginWriteClaim(t)
    \/ BeginWriteReturn(t)
    \/ PollBeginWrite(t)
    \/ PollWriteReady(t)
    \/ PayloadStore(t)
    \/ CommitWrite(t)
    \/ PollCommitWrite(t)
    \/ BeginReadClaim(t)
    \/ BeginReadReturn(t)
    \/ PollBeginRead(t)
    \/ PollReadReady(t)
    \/ PayloadLoad(t)
    \/ CommitRead(t)
    \/ PollCommitRead(t)

InitRingFair == FullRingInit /\ ArcInit /\ MultiIdle
SpecRingFair ==
    /\ InitRingFair
    /\ [][RingNext]_vars
    /\ \A t \in RingThreads : WF_vars(ThreadNext(t))

\* The shared-pointer program: writers, readers and main on one cell.
InitArc == ArcInit /\ RingIdle /\ MultiIdle
SpecArc == InitArc /\ [][ArcNext]_vars

\* The shared-pointer program with the cell reset to null while threads
\* are still at work.
InitReset == ArcInit /\ RingIdle /\ MultiIdle
SpecReset == InitReset /\ [][ResetNext]_vars

\* The shared-pointer program with threads that store the value they hold
\* again.
InitRestore == ArcInit /\ RingIdle /\ MultiIdle
SpecRestore == InitRestore /\ [][RestoreNext]_vars

\* The steps of one thread of the shared-pointer program.
ArcThreadNext(t) ==
    \/ FooNew(t)
    \/ MainStoreNull(t)
    \/ StoreClone(t)
    \/ LoadCall(t)
    \/ AtomicBeginReadCb(t)
    \/ AtomicBeginReadData(t)
    \/ AtomicBeginCas(t)
    \/ StoreDropReference(t)
    \/ StoreCommit(t)
    \/ StoreDropData(t)
    \/ LoadClone(t)
    \/ LoadCommit(t)
    \/ DropReference(t)
    \/ DropData(t)

\* The shared-pointer program under a scheduler that lets every thread
\* that is not finished run again and again.
SpecArcFair ==
    /\ InitArc
    /\ [][ArcNext]_vars
    /\ \A t \in ArcThreads : WF_vars(ArcThreadNext(t))

\* The shared-pointer program when the scheduler never runs one of the
\* threads again from some point on (the first reader), and lets every
\* other thread run again and again.
Suspended == NumWriters + 1
Running == ArcThreads \ {Suspended}
SpecArcSuspended ==
    /\ InitArc
    /\ [][ArcNext]_vars
    /\ \A t \in Running : WF_vars(ArcThreadNext(t))

\* Clone and drop of one value by several threads, no cell involved.
InitClone == CloneInit /\ RingIdle /\ MultiIdle
SpecClone == InitClone /\ [][CloneNext]_vars

\* The ring program on a ring whose counters wrap during the run.
InitWrap == WrapInit /\ ArcInit /\ MultiIdle
SpecWrap == InitWrap /\ [][RingNext]_vars

\* Several rings, a blocking producer each, one polling consumer, every
\* thread scheduled again and again.
InitMulti == MultiInit /\ RingIdle /\ ArcInit
SpecMulti ==
    /\ InitMulti
    /\ [][MultiNext]_vars
    /\ \A r \in Rings : WF_vars(RingProducerNext(r))
    /\ WF_vars(PollingConsumerNext)


(***************************************************************************)
(* Properties of the ring.                                                 *)
(***************************************************************************)
ActiveThreads == {t \in RingThreads : Active(t)}

\* producers + consumers <= capacity / 2
ParticipantsOk == 2 * Cardinality(ActiveThreads) <= pow2_buffer_count

AllDone == \A t \in RingThreads : count[t] = max_i[t]

\* Every value a slot can hold, and every value the run writes.
Values == {NoValue} \cup {Item(t, k) : t \in Producers, k \in 1 .. MaxItems}
Written == {v \in Values : v # NoValue /\ v[2] <= max_i[v[1]]}

\* How often value v occurs in what the consumers have read.
Occurrences(v) ==
    Cardinality({<<c, i>> \in Consumers \X (1 .. (NumProducers * MaxItems)) :
                    i <= Len(consumed[c]) /\ consumed[c][i] = v})

\* The ownership window of a cursor on its slot.
InWriteWindow(t) == pc[t] \in {"writable", "dirty"}
InReadWindow(t) == pc[t] \in {"readable", "loaded"}
InWindow(t) == InWriteWindow(t) \/ InReadWindow(t)

\* C1: with producers + consumers <= capacity / 2, no value is read twice
\* and only written values are read at any time, and once every producer
\* and consumer has finished, every written value has been read exactly
\* once (the multiset read equals the multiset written).
C1_Conservation ==
    ParticipantsOk =>
        /\ \A v \in Values :
              Occurrences(v) <= (IF v \in Written THEN 1 ELSE 0)
        /\ AllDone => \A v \in Written : Occurrences(v) = 1

C1_Witness ==
    /\ ParticipantsOk
    /\ AllDone
    /\ Cardinality(ActiveThreads \cap Producers) = 2
    /\ \A c \in Consumers : Len(consumed[c]) >= 1

\* C2: with producers + consumers <= capacity / 2, no two cursors are
\* inside their ownership windows on the same slot index.
C2_SlotExclusive ==
    ParticipantsOk =>
        \A t, u \in RingThreads :
            (t # u /\ InWindow(t) /\ InWindow(u))
                => buffer_pos[t] # buffer_pos[u]

\* A producer that had to wait for a full ring owns a slot for the second
\* time round while the consumer owns another slot.
C2_Witness ==
    /\ ParticipantsOk
    /\ \E t \in Producers, u \in Consumers :
          /\ InWriteWindow(t)
          /\ InReadWindow(u)
          /\ current_pos[t] >= pow2_buffer_count
          /\ current_pos[t] = current_pos[u] + pow2_buffer_count - 1

\* C5: a consumer is inside its window on sequence p only when
\* last_write >= p; every sequence up to last_write has had its payload
\* stored by its claimant; and the value in the consumer's slot, and the
\* value it has read, is the one the claimant of p stored.
C5_PublishedIsWritten ==
    /\ \A c \in Consumers :
          InReadWindow(c) => last_write_pos >= current_pos[c]
    /\ \A p \in SeqNums : p <= last_write_pos => stored[p] # NoValue
    /\ \A t \in Producers :
          pc[t] \in {"begin_write", "poll_write", "writable"}
              => last_write_pos < current_pos[t]
    /\ \A c \in Consumers :
          /\ pc[c] = "readable"
                => /\ g_foo[buffer_pos[c]] = stored[current_pos[c]]
                   /\ g_foo[buffer_pos[c]] # NoValue
          /\ pc[c] = "loaded" => current[c] = stored[current_pos[c]]

\* A consumer has read a slot that was written for the second time round.
C5_Witness ==
    \E c \in Consumers :
        /\ pc[c] = "loaded"
        /\ current_pos[c] >= pow2_buffer_count
        /\ current[c] # NoValue
        /\ Cardinality(ActiveThreads \cap Producers) = 2

SingleConsumer == Cardinality(ActiveThreads \cap Consumers) = 1
SingleProducer == Cardinality(ActiveThreads \cap Producers) = 1

\* C6: a single consumer reads the values in sequence-number order; with
\* one producer what it has read is a prefix of what the producer wrote,
\* and with several producers the items of each producer come in the order
\* that producer wrote them.
C6_SingleConsumerFifo ==
    SingleConsumer =>
        \A c \in Consumers :
            /\ \A i \in 1 .. Len(consumed[c]) :
                  /\ consumed[c][i] = stored[i - 1]
                  /\ consumed[c][i] # NoValue
                  /\ SingleProducer => consumed[c][i] = Item(1, i)
            /\ \A i, j \in 1 .. Len(consumed[c]) :
                  (i < j /\ consumed[c][i][1] = consumed[c][j][1])
                      => consumed[c][i][2] < consumed[c][j][2]

\* One consumer has read everything two producers wrote, through a ring
\* that is smaller than the number of items.
C6_Witness ==
    /\ SingleConsumer
    /\ AllDone
    /\ Cardinality(ActiveThreads \cap Producers) = 2
    /\ \E c \in Consumers :
          /\ Len(consumed[c]) > pow2_buffer_count
          /\ \E i \in 1 .. (Len(consumed[c]) - 1) :
                consumed[c][i][1] # consumed[c][i + 1][1]

\* C7: every change of last_write and of last_read is an increase by
\* exactly 1, made by the cursor whose sequence number is the new value
\* (so the watermark was p - 1); and a cursor that has its payload done
\* while the watermark is not p - 1 stays uncommitted in every step.
C7_InOrderCommit ==
    [][ /\ last_write_pos' # last_write_pos =>
            /\ last_write_pos' = last_write_pos + 1
            /\ \E t \in Producers :
                  /\ pc[t] = "dirty" /\ pc'[t] = "idle"
                  /\ current_pos[t] = last_write_pos + 1
        /\ last_read_pos' # last_read_pos =>
            /\ last_read_pos' = last_read_pos + 1
            /\ \E t \in Consumers :
                  /\ pc[t] = "loaded" /\ pc'[t] = "idle"
                  /\ current_pos[t] = last_read_pos + 1
        /\ \A t \in Producers :
              (pc[t] = "dirty" /\ last_write_pos # current_pos[t] - 1)
                  => (pc'[t] = "dirty" /\ count'[t] = count[t])
        /\ \A t \in Consumers :
              (pc[t] = "loaded" /\ last_read_pos # current_pos[t] - 1)
                  => (pc'[t] = "loaded" /\ count'[t] = count[t])
      ]_vars

\* A producer has stored its payload before its predecessor committed, and
\* so has a consumer.
C7_Witness ==
    /\ \E t \in Producers :
          pc[t] = "dirty" /\ last_write_pos < current_pos[t] - 1
    /\ \E t \in Consumers :
          pc[t] = "loaded" /\ last_read_pos < current_pos[t] - 1


(***************************************************************************)
(* Properties of the shared pointer.                                       *)
(***************************************************************************)
Allocated == {k \in Objects : k < next_obj}
IsObject(chunk) == chunk.p_data # 0
Destroyed(chunk) == destroys[ObjOf(chunk)] > 0

\* Every writer and reader has run to its end.
ThreadsDone ==
    /\ \A u \in Writers : apc[u] = "idle" /\ iter[u] = StoresPerWriter
    /\ \A u \in Readers : apc[u] = "idle" /\ iter[u] = LoadsPerReader

\* C3: no reference_count of a control block whose destructor has been
\* invoked is incremented or decremented, and the value an atomic_load
\* hands to its caller has not had its destructor invoked.
C3_NoUseAfterFree ==
    /\ ~uaf
    /\ \A t \in Readers :
          (apc[t] \in {"load_commit", "holding"} /\ IsObject(foo[t]))
              => ~Destroyed(foo[t])

\* A reader holds a value that a store has meanwhile displaced from the
\* cell, as its only owner.
C3_Witness ==
    \E t \in Readers :
        /\ apc[t] = "holding"
        /\ IsObject(foo[t])
        /\ IsObject(g_arc)
        /\ g_arc # foo[t]
        /\ reference_count[ObjOf(foo[t])] = 1

\* C4: after ntarc_new, clones and drops: the destructor is invoked at
\* most once; not while a reference is still held; by no drop that
\* returned more than 1; the drop that returns 1 is the last one, and when
\* every reference has been dropped the destructor has been invoked once.
C4_DestroyOnce ==
    /\ destroys[1] <= 1
    /\ (\A t \in ArcThreads : apc[t] = "idle") => destroys[1] = 1
    /\ \A t \in ArcThreads :
          /\ apc[t] = "holding" => destroys[1] = 0
          /\ apc[t] = "drop_data" => ref_count[t] >= 1
          /\ (apc[t] = "drop_data" /\ ref_count[t] = 1) =>
                /\ destroys[1] = 0
                /\ \A u \in ArcThreads \ {t} :
                      /\ apc[u] # "holding"
                      /\ ~(apc[u] = "drop_data" /\ ref_count[u] = 1)
    /\ (destroys[1] = 1) =>
          \A t \in ArcThreads : apc[t] = "drop_data" => ref_count[t] > 1

\* The destructor has run while another thread's drop, which returned 2,
\* has not yet returned.
C4_Witness ==
    /\ destroys[1] = 1
    /\ \E t \in ArcThreads : apc[t] = "drop_data" /\ ref_count[t] = 2
    /\ \E t \in ArcThreads : iter[t] = ClonesPerHolder

\* C8: the cell implements a register.  reg is changed by each
\* atomic_store at its commit, and each atomic_load takes effect at the
\* exchange that ends its atomic_begin (both inside the call): the cell,
\* when it does not hold the special chunk, holds reg, and the value an
\* atomic_load returns is the value reg had when the load took effect.
C8_Linearizable ==
    /\ g_arc # special_chunk => g_arc = reg
    /\ \A t \in Readers :
          apc[t] \in {"load_commit", "holding"} => foo[t] = lin[t]
    /\ \A t \in Readers : apc[t] = "load_clone" => old_chunk[t] = lin[t]

\* A reader holds the value of the first store after a second store has
\* taken effect.
C8_Witness ==
    \E t \in Readers :
        /\ apc[t] = "holding"
        /\ IsObject(foo[t])
        /\ IsObject(reg)
        /\ reg # foo[t]

\* C9: no destructor runs twice; once all writers and readers have ended,
\* every stored value but the one in the cell has been destroyed once and
\* the one in the cell has not; after main's atomic_store of null every
\* value has been destroyed exactly once.
C9_NoLeakNoDoubleDestroy ==
    /\ \A k \in Objects : destroys[k] <= 1
    /\ (ThreadsDone /\ apc[MainThread] = "idle") =>
          /\ Allocated = Objects
          /\ IsObject(g_arc)
          /\ \A k \in Objects :
                destroys[k] = (IF ArcOf(k) = g_arc THEN 0 ELSE 1)
    /\ apc[MainThread] = "done" =>
          /\ g_arc = NullArc
          /\ \A k \in Objects : destroys[k] = 1

C9_Witness ==
    /\ apc[MainThread] = "done"
    /\ \A k \in Objects : destroys[k] = 1
    /\ \A t \in Readers : iter[t] = LoadsPerReader

\* The references a thread owns: its local foo from foo_new or atomic_load
\* until it is dropped, new_chunk from the clone to the commit, old_chunk
\* from the begin of a load to its commit and from the begin of a store
\* to its drop_reference.
OwnedChunks(t) ==
    (IF \/ apc[t] \in {"store_clone", "holding", "load_commit"}
        \/ (t \in Writers /\ apc[t] \in
               {"begin_cb", "begin_data", "begin_cas",
                "store_drop_reference", "store_commit", "store_drop_data"})
     THEN {foo[t]} ELSE {}) \cup
    (IF /\ t \notin Readers
        /\ apc[t] \in {"begin_cb", "begin_data", "begin_cas",
                       "store_drop_reference", "store_commit"}
     THEN {new_chunk[t]} ELSE {}) \cup
    (IF apc[t] \in {"load_clone", "load_commit", "store_drop_reference"}
     THEN {old_chunk[t]} ELSE {})

\* C10: the pair in the cell, and every pair a thread owns, has a
\* reference count of at least 1 and has not been destroyed.
C10_ContentsAlive ==
    /\ (g_arc # special_chunk /\ IsObject(g_arc)) =>
          /\ reference_count[ObjOf(g_arc)] >= 1
          /\ ~Destroyed(g_arc)
    /\ \A t \in ArcThreads : \A c \in OwnedChunks(t) :
          IsObject(c) =>
              /\ reference_count[ObjOf(c)] >= 1
              /\ ~Destroyed(c)

\* The cell holds a value whose only reference is the cell's, after the
\* value it displaced was destroyed.
C10_Witness ==
    /\ g_arc # special_chunk
    /\ IsObject(g_arc)
    /\ reference_count[ObjOf(g_arc)] = 1
    /\ \E k \in Objects : destroys[k] = 1
    /\ \E t \in Readers : apc[t] = "begin_cas"


(***************************************************************************)
(* ntringb.h: the watermarks                                               *)
(***************************************************************************)
\* The producers whose claim still waits for space: inside the loop of
\* ntringb_begin_write, or between ntringb_poll_begin_write and the
\* ntringb_poll_write_ready that returns TRUE.
WaitingWriters == {t \in Producers : pc[t] \in {"begin_write", "poll_write"}}

\* C11: in every reachable state of a ring used through begin/commit
\* (blocking, or polling with readiness checked before the commit),
\* -1 <= last_read <= next_read and last_read <= last_write <= next_write.
C11_WatermarkOrder ==
    /\ -1 <= last_read_pos
    /\ last_read_pos <= next_read_pos
    /\ last_read_pos <= last_write_pos
    /\ last_write_pos <= next_write_pos

\* C11 witness: all four watermarks have moved and all the inequalities
\* are strict.
C11_Witness ==
    /\ 0 <= last_read_pos
    /\ last_read_pos < next_read_pos
    /\ last_read_pos < last_write_pos
    /\ last_write_pos < next_write_pos

\* C12 as stated: in every reachable state of a ring, next_write - last_read
\* does not exceed capacity.
C12_ClaimBound == next_write_pos - last_read_pos <= pow2_buffer_count

\* C12 as amended: next_write - last_read does not exceed capacity plus the
\* number of producers whose claim still waits for space; the claims that
\* passed the wait stay within capacity of last_read, and so does
\* last_write.
C12_ClaimBoundAmended ==
    /\ next_write_pos - last_read_pos
           <= pow2_buffer_count + Cardinality(WaitingWriters)
    /\ last_write_pos - last_read_pos <= pow2_buffer_count
    /\ \A t \in Producers :
           InWriteWindow(t) =>
               current_pos[t] - last_read_pos <= pow2_buffer_count

\* C12 witness: claims beyond capacity are out, every one of them held by
\* a waiting producer, while the ring is full.
C12_Witness ==
    /\ next_write_pos - last_read_pos
           = pow2_buffer_count + Cardinality(WaitingWriters)
    /\ Cardinality(WaitingWriters) > 0
    /\ last_write_pos - last_read_pos = pow2_buffer_count

(***************************************************************************)
(* ntringb.h: the claims                                                   *)
(***************************************************************************)
\* The threads that hold a sequence number they have not committed.
Holding(t) == pc[t] # "idle"

\* The sequence 0, 1, ..., n.
UpTo(n) == [i \in 1 .. (n + 1) |-> i - 1]

\* C13: the sequence numbers begin_write / poll_begin_write return into
\* current_pos are pairwise distinct and are exactly 0 .. next_write, the
\* first one being 0 (slot index 0); the same holds for the consumers and
\* next_read.
C13_GapFreeClaims ==
    /\ write_claims = UpTo(next_write_pos)
    /\ read_claims = UpTo(next_read_pos)
    /\ \A t, u \in RingThreads :
           (t # u /\ Holding(t) /\ Holding(u) /\ (t \in Producers <=> u \in Producers))
               => current_pos[t] # current_pos[u]
    /\ \A t \in RingThreads :
           (Holding(t) /\ current_pos[t] = 0 /\ pc[t] \notin {"begin_write", "begin_read"})
               => buffer_pos[t] = 0

\* C13 witness: two producers and two consumers hold claims at once, after
\* earlier claims were committed.
C13_Witness ==
    /\ Len(write_claims) >= 3
    /\ Len(read_claims) >= 3
    /\ \A t \in RingThreads : Holding(t)

\* capacity + last_read - p + 1 for the claim of producer t, as an integer.
WriteSpace(t) == pow2_buffer_count + last_read_pos - current_pos[t] + 1

\* C14: begin_write for sequence p returns only in a state where
\* capacity + last_read - p + 1 >= 1, and returns p mod capacity; so while
\* no read is committed on a fresh ring at most `capacity` writes are
\* begun and committed, and the claim `capacity` is not returned before a
\* commit_read has advanced last_read.
C14_CapacityGate ==
    /\ [](\A t \in Producers :
            InWriteWindow(t) =>
                /\ WriteSpace(t) >= 1
                /\ buffer_pos[t] = current_pos[t] % pow2_buffer_count
                /\ current_pos[t] >= pow2_buffer_count => last_read_pos >= 0)
    /\ [](last_read_pos = -1 => last_write_pos + 1 <= pow2_buffer_count)
    /\ [][\A t \in Producers :
            (pc[t] = "begin_write" /\ pc'[t] # "begin_write") =>
                /\ WriteSpace(t) >= 1
                /\ pc'[t] = "writable"
                /\ buffer_pos'[t] = current_pos[t] % pow2_buffer_count]_vars

\* C14 witness: no read is committed, exactly `capacity` writes are
\* committed, and the next begin_write is held in its loop.
C14_Witness ==
    /\ last_read_pos = -1
    /\ last_write_pos + 1 = pow2_buffer_count
    /\ \E t \in Producers :
           /\ pc[t] = "begin_write"
           /\ current_pos[t] = pow2_buffer_count
           /\ WriteSpace(t) < 1

(***************************************************************************)
(* ntringb.h: progress                                                     *)
(***************************************************************************)
\* C15: under a fair scheduler, with producers + consumers <= capacity / 2
\* and as many items claimed by the consumers as written by the producers,
\* every begin_write, begin_read, commit_write and commit_read returns:
\* a full and an empty ring are transient waits.  A thread makes its calls
\* one after the other, so every call returns exactly if every thread
\* reaches the end of its loop.
C15_Progress == ParticipantsOk => <>AllDone

\* C15 witness: a run within the participant bound has ended after the
\* ring was full (more items than slots went through it).
C15_Witness ==
    /\ ParticipantsOk
    /\ AllDone
    /\ last_write_pos + 1 > pow2_buffer_count

(***************************************************************************)
(* ntringb.h: a claim that is not committed                                *)
(***************************************************************************)
\* Thread t keeps, uncommitted, the claim it holds over a step.
KeepsClaim(t) ==
    /\ Holding(t)
    /\ Holding(t)'
    /\ current_pos'[t] = current_pos[t]

\* C16: as long as a producer holds an uncommitted claim p, last_write does
\* not exceed p - 1, and no commit_write or poll_commit_write of a sequence
\* number greater than p returns (TRUE); the same for a consumer's claim,
\* last_read, commit_read and poll_commit_read.
C16_AbandonedClaimStalls ==
    /\ [](\A t \in Producers :
            Holding(t) => last_write_pos <= current_pos[t] - 1)
    /\ [](\A t \in Consumers :
            Holding(t) => last_read_pos <= current_pos[t] - 1)
    /\ [][\A t, u \in Producers :
            (KeepsClaim(t) /\ pc[u] = "dirty" /\ current_pos[u] > current_pos[t])
                => (pc'[u] = "dirty" /\ last_write_pos' <= current_pos[t] - 1)]_vars
    /\ [][\A t, u \in Consumers :
            (KeepsClaim(t) /\ pc[u] = "loaded" /\ current_pos[u] > current_pos[t])
                => (pc'[u] = "loaded" /\ last_read_pos' <= current_pos[t] - 1)]_vars

\* C16 witness: a producer and a consumer sit on the claims next to commit
\* while the successors of both have finished their slots and wait in
\* their commits.
C16_Witness ==
    /\ \E t, u \in Producers :
           /\ pc[t] \in {"begin_write", "poll_write", "writable"}
           /\ pc[u] = "dirty"
           /\ current_pos[u] = current_pos[t] + 1
           /\ last_write_pos = current_pos[t] - 1
    /\ \E t, u \in Consumers :
           /\ pc[t] \in {"begin_read", "poll_read", "readable"}
           /\ pc[u] = "loaded"
           /\ current_pos[u] = current_pos[t] + 1
           /\ last_read_pos = current_pos[t] - 1

(***************************************************************************)
(* ntringb.h: the polling calls                                            *)
(***************************************************************************)
\* last_write - p + 1 for the claim of consumer t, as an integer.
ReadSpace(t) == last_write_pos - current_pos[t] + 1

\* The four counters of the ring and the cursors.
Counters == <<next_write_pos, last_write_pos, next_read_pos, last_read_pos>>

\* C17: poll_begin_write (poll_begin_read) completes in one step whatever
\* the state of the ring: it increments next_write (next_read), sets
\* current_pos to the new value and returns current_pos mod capacity;
\* poll_write_ready returns TRUE exactly when capacity + last_read -
\* current_pos + 1 >= 1, poll_read_ready exactly when last_write -
\* current_pos + 1 >= 1, and neither changes a counter or the cursor.
C17_PollingClaimAndReady ==
    /\ [](\A t \in RingThreads :
            (pc[t] = "idle" /\ count[t] < max_i[t]) =>
                IF t \in Producers THEN ENABLED PollBeginWrite(t)
                ELSE ENABLED PollBeginRead(t))
    /\ [][\A t \in Producers :
            (pc[t] = "idle" /\ pc'[t] = "poll_write") =>
                /\ next_write_pos' = next_write_pos + 1
                /\ current_pos'[t] = next_write_pos'
                /\ buffer_pos'[t] = current_pos'[t] % pow2_buffer_count
                /\ UNCHANGED <<last_write_pos, next_read_pos, last_read_pos>>]_vars
    /\ [][\A t \in Consumers :
            (pc[t] = "idle" /\ pc'[t] = "poll_read") =>
                /\ next_read_pos' = next_read_pos + 1
                /\ current_pos'[t] = next_read_pos'
                /\ buffer_pos'[t] = current_pos'[t] % pow2_buffer_count
                /\ UNCHANGED <<next_write_pos, last_write_pos, last_read_pos>>]_vars
    /\ [](\A t \in Producers :
            pc[t] = "poll_write" =>
                /\ (ENABLED (PollWriteReady(t) /\ pc'[t] = "writable"))
                       <=> (WriteSpace(t) >= 1)
                /\ (ENABLED (PollWriteReady(t) /\ UNCHANGED vars))
                       <=> ~(WriteSpace(t) >= 1))
    /\ [](\A t \in Consumers :
            pc[t] = "poll_read" =>
                /\ (ENABLED (PollReadReady(t) /\ pc'[t] = "readable"))
                       <=> (ReadSpace(t) >= 1)
                /\ (ENABLED (PollReadReady(t) /\ UNCHANGED vars))
                       <=> ~(ReadSpace(t) >= 1))
    /\ [][\A t \in RingThreads :
            (pc[t] \in {"poll_write", "poll_read"} /\ pc'[t] # pc[t]) =>
                /\ pc'[t] = (IF t \in Producers THEN "writable" ELSE "readable")
                /\ UNCHANGED <<Counters, current_pos, buffer_pos>>]_vars

\* C17 witness: a poll_begin_write has returned on a full ring, and its
\* poll_write_ready would return FALSE.
C17_Witness ==
    \E t \in Producers :
        /\ pc[t] = "poll_write"
        /\ WriteSpace(t) < 1
        /\ last_write_pos - last_read_pos = pow2_buffer_count
        /\ buffer_pos[t] = current_pos[t] % pow2_buffer_count

\* C18: poll_commit_write makes one attempt and never waits; it returns
\* TRUE exactly when last_write = current_pos - 1 at the attempt, and then
\* last_write becomes current_pos; when it returns FALSE the four counters
\* and the cursor are unchanged, and an attempt made once the predecessor
\* has committed returns TRUE.  poll_commit_read does the same on
\* last_read.
C18_PollingCommit ==
    /\ [](\A t \in Producers :
            pc[t] = "dirty" =>
                /\ ENABLED PollCommitWrite(t)
                /\ (ENABLED (PollCommitWrite(t) /\ pc'[t] = "idle"))
                       <=> (last_write_pos = current_pos[t] - 1)
                /\ (ENABLED (PollCommitWrite(t) /\ UNCHANGED vars))
                       <=> (last_write_pos # current_pos[t] - 1))
    /\ [](\A t \in Consumers :
            pc[t] = "loaded" =>
                /\ ENABLED PollCommitRead(t)
                /\ (ENABLED (PollCommitRead(t) /\ pc'[t] = "idle"))
                       <=> (last_read_pos = current_pos[t] - 1)
                /\ (ENABLED (PollCommitRead(t) /\ UNCHANGED vars))
                       <=> (last_read_pos # current_pos[t] - 1))
    /\ [][\A t \in Producers :
            (pc[t] = "dirty" /\ pc'[t] # "dirty") =>
                /\ last_write_pos = current_pos[t] - 1
                /\ last_write_pos' = current_pos[t]
                /\ UNCHANGED <<next_write_pos, next_read_pos, last_read_pos,
                               current_pos>>]_vars
    /\ [][\A t \in Consumers :
            (pc[t] = "loaded" /\ pc'[t] # "loaded") =>
                /\ last_read_pos = current_pos[t] - 1
                /\ last_read_pos' = current_pos[t]
                /\ UNCHANGED <<next_write_pos, last_write_pos, next_read_pos,
                               current_pos>>]_vars

\* C18 witness: a producer and a consumer whose predecessors have not
\* committed are at their commits: poll_commit_write and poll_commit_read
\* return FALSE there.
C18_Witness ==
    /\ \E t \in Producers :
           pc[t] = "dirty" /\ last_write_pos < current_pos[t] - 1
    /\ \E t \in Consumers :
           pc[t] = "loaded" /\ last_read_pos < current_pos[t] - 1

(***************************************************************************)
(* ntringb.h: one polling consumer over several rings                      *)
(***************************************************************************)
\* The consumer has committed the read of every item of every ring.
ConsumerDone == \A r \in Rings : rpos[r].count = RingItems

\* What the producer of ring r writes, in order.
Expected(r) == [i \in 1 .. RingItems |-> Item(r, i)]

\* C19: one consumer thread with a polling cursor per ring, visiting the
\* rings in turn, each ring written by its own blocking producer, receives
\* every item of every ring exactly once, and is never held inside a ring
\* call, whether one or all of the rings are empty.
C19_PollingOverRings ==
    /\ [](\A r \in Rings :
            /\ Len(received[r]) <= RingItems
            /\ \A i \in 1 .. Len(received[r]) : received[r][i] = Item(r, i))
    /\ [](~ConsumerDone => ENABLED <<PollingConsumerNext>>_vars)
    /\ <>(ConsumerDone /\ \A r \in Rings : received[r] = Expected(r))

\* C19 witness: the consumer is back at the first ring, still empty and
\* with its claim outstanding, after it has received all the items of the
\* last ring.
C19_Witness ==
    /\ visit = 1
    /\ rpos[1].pc = "poll_read"
    /\ rings[1].last_write_pos = -1
    /\ received[NumRings] = Expected(NumRings)

(***************************************************************************)
(* ntringb.h: the counters wrap                                            *)
(***************************************************************************)
\* C20: with LONG a two's-complement integer of LongBits bits and
\* producers + consumers <= capacity / 2, while the counters pass from
\* 2^(w-1) - 1 to -2^(w-1) no two cursors are in their windows on one
\* slot, a single consumer reads the values in the order of their sequence
\* numbers, and the slot index of consecutive claims goes through
\* 0 .. capacity - 1 in a cycle, no slot repeated and none skipped (stated
\* of the latest two claims, in every state).
C20_WrapAround ==
    ParticipantsOk =>
        /\ \A t, u \in RingThreads :
               (t # u /\ InWindow(t) /\ InWindow(u))
                   => buffer_pos[t] # buffer_pos[u]
        /\ SingleConsumer =>
               \A c \in Consumers :
                   \A i \in 1 .. Len(consumed[c]) :
                       /\ consumed[c][i] = stored[read_claims[i]]
                       /\ consumed[c][i] \notin {NoValue, OldValue}
                       /\ SingleProducer => consumed[c][i] = Item(1, i)
        /\ LET n == Len(write_claims)
           IN n > 1 =>
               /\ write_claims[n] = ToLong(write_claims[n - 1] + 1)
               /\ BufferPos(write_claims[n])
                      = (BufferPos(write_claims[n - 1]) + 1) % pow2_buffer_count
        /\ LET n == Len(read_claims)
           IN n > 1 =>
               /\ read_claims[n] = ToLong(read_claims[n - 1] + 1)
               /\ BufferPos(read_claims[n])
                      = (BufferPos(read_claims[n - 1]) + 1) % pow2_buffer_count
        /\ \A t \in RingThreads :
               InWindow(t) =>
                   /\ buffer_pos[t] \in 0 .. (pow2_buffer_count - 1)
                   /\ buffer_pos[t] = current_pos[t] % pow2_buffer_count

\* C20 witness: the ring is full across the wrap: a consumer is in its
\* window on the last positive sequence numbers while a producer is in
\* its window, capacity - 1 claims later, on a negative one; and the
\* consumer has read in order up to there.
C20_Witness ==
    /\ ParticipantsOk
    /\ \E t \in Producers, u \in Consumers :
           /\ InWriteWindow(t)
           /\ InReadWindow(u)
           /\ current_pos[u] > 0
           /\ current_pos[t] < 0
           /\ ToLong(current_pos[t] - current_pos[u]) = pow2_buffer_count - 1
           /\ Len(consumed[u]) >= 1


(***************************************************************************)
(* ntarc.h: atomic_load and atomic_store of the cell                       *)
(***************************************************************************)
\* Thread t takes the step that leads it from position a to position b.
ArcStep(t, a, b) == apc[t] = a /\ apc'[t] = b

\* C21: an atomic_load that follows a completed atomic_store of v, no
\* other store between them (reg is the pair of the latest store), sets
\* its result to a pair with v's control block and data, adds exactly one
\* to v's reference count (none for the null pair), and leaves the cell
\* holding v.
C21_LoadAfterStore ==
    [][\A t \in Readers :
          /\ ArcStep(t, "load_clone", "load_commit") =>
                /\ foo'[t] = reg
                /\ ntarc_is_equal(foo'[t], reg)
                /\ IsObject(reg) =>
                      /\ reference_count'[ObjOf(reg)]
                             = reference_count[ObjOf(reg)] + 1
                      /\ \A k \in Objects \ {ObjOf(reg)} :
                             reference_count'[k] = reference_count[k]
                /\ ~IsObject(reg) => reference_count' = reference_count
          /\ ArcStep(t, "load_commit", "holding") =>
                /\ g_arc' = reg
                /\ g_arc' = foo[t]
                /\ reg' = reg]_vars

\* C21 witness: a load has returned the pair of the latest store, which
\* the cell still holds, and the pair counts the cell's reference, the
\* storing thread's and the loading thread's.
C21_Witness ==
    \E t \in Readers, w \in Writers :
        /\ apc[t] = "holding"
        /\ apc[w] = "holding"
        /\ IsObject(foo[t])
        /\ foo[t] = foo[w]
        /\ g_arc = foo[t]
        /\ reference_count[ObjOf(foo[t])] = 3


\* Thread t is inside a call of ntarc_atomic_store or ntarc_atomic_load.
InCall(t) ==
    apc[t] \in {"store_clone", "begin_cb", "begin_data", "begin_cas",
                "store_drop_reference", "store_commit", "store_drop_data",
                "load_clone", "load_commit"}

\* C22: under every interleaving of atomic_store and atomic_load calls no
\* atomic_load has the special chunk { 1, 0 } as the pair it clones or
\* returns, no atomic_store has it as the old pair it decrements or
\* destroys through, and the cell does not hold it when no call is in
\* progress.
C22_BusyNeverObserved ==
    /\ \A t \in ArcThreads :
          /\ foo[t] # special_chunk
          /\ ~ntarc_is_equal(foo[t], special_chunk)
    /\ \A t \in ArcThreads :
          apc[t] \in {"load_clone", "load_commit", "store_drop_reference",
                      "store_commit", "store_drop_data"}
              => /\ old_chunk[t] # special_chunk
                 /\ ~ntarc_is_equal(old_chunk[t], special_chunk)
    /\ (\A t \in ArcThreads : ~InCall(t)) => g_arc # special_chunk

\* C22 witness: while one thread's load holds the cell, a store has read
\* the special chunk from it in ntarc_atomic_begin and is about to test it.
C22_Witness ==
    \E t \in Readers, u \in Writers :
        /\ apc[t] = "load_commit"
        /\ IsObject(foo[t])
        /\ g_arc = special_chunk
        /\ apc[u] = "begin_cas"
        /\ old_chunk[u] = special_chunk


\* C23: the null pair is handled by every operation.  A drop of a pair
\* whose data is 0 returns 0, changes no reference count and invokes no
\* destructor; a clone of the null pair yields the null pair and changes
\* no reference count; an atomic_load of a null cell returns the null pair
\* and leaves the cell null; an atomic_store into a null cell changes no
\* reference count for the old pair and invokes no destructor.
C23_NullFirstClass ==
    [][\A t \in ArcThreads :
          /\ (ArcStep(t, "holding", "drop_data") /\ foo[t].p_data = 0) =>
                /\ ref_count'[t] = 0
                /\ reference_count' = reference_count
                /\ destroys' = destroys
          /\ (ArcStep(t, "drop_data", "idle") /\ foo[t].p_data = 0) =>
                /\ ref_count[t] = 0
                /\ reference_count' = reference_count
                /\ destroys' = destroys
          /\ (ArcStep(t, "store_clone", "begin_cb") /\ foo[t] = NullArc) =>
                /\ new_chunk'[t] = NullArc
                /\ reference_count' = reference_count
          /\ (ArcStep(t, "load_clone", "load_commit")
                  /\ old_chunk[t] = NullArc) =>
                /\ lin[t] = NullArc
                /\ foo'[t] = NullArc
                /\ reference_count' = reference_count
          /\ (ArcStep(t, "load_commit", "holding")
                  /\ old_chunk[t] = NullArc) =>
                /\ foo[t] = NullArc
                /\ g_arc' = NullArc
          /\ (ArcStep(t, "store_drop_reference", "store_commit")
                  /\ old_chunk[t] = NullArc) =>
                /\ ref_count'[t] = 0
                /\ reference_count' = reference_count
                /\ destroys' = destroys
          /\ (ArcStep(t, "store_drop_data", "holding")
                  /\ old_chunk[t] = NullArc) =>
                /\ destroys' = destroys
                /\ reference_count' = reference_count
                /\ g_arc' = g_arc]_vars

\* C23 witness: a thread that loaded the null pair from the null cell is
\* in its drop, which returned 0, while the first store has taken the null
\* pair out of the cell and its drop_reference returned 0; no destructor
\* has been invoked.
C23_Witness ==
    \E t \in Readers, w \in Writers :
        /\ apc[t] = "drop_data"
        /\ foo[t] = NullArc
        /\ ref_count[t] = 0
        /\ apc[w] = "store_commit"
        /\ old_chunk[w] = NullArc
        /\ ref_count[w] = 0
        /\ \A k \in Objects : destroys[k] = 0


\* Thread t is between the exchange that ended its ntarc_atomic_begin and
\* the exchange of its ntarc_atomic_commit.
InCritical(t) ==
    apc[t] \in {"load_clone", "load_commit", "store_drop_reference",
                "store_commit"}

\* C27: at most one thread is between a successful atomic_begin and its
\* atomic_commit; the cell holds the special chunk exactly while some
\* thread is; no other thread changes the cell meanwhile; and the
\* compare-and-swap of every atomic_commit finds the special chunk, that
\* is, succeeds.
C27_BusyExclusive ==
    /\ [](/\ \A t, u \in ArcThreads :
                (InCritical(t) /\ InCritical(u)) => t = u
          /\ (g_arc = special_chunk) <=> (\E t \in ArcThreads : InCritical(t)))
    /\ [][\A t \in ArcThreads :
             /\ (InCritical(t) /\ InCritical(t)') =>
                    (g_arc' = g_arc /\ g_arc = special_chunk)
             /\ (InCritical(t) /\ ~InCritical(t)') =>
                    /\ g_arc = special_chunk
                    /\ g_arc' = (IF t \in Readers THEN old_chunk[t]
                                 ELSE new_chunk[t])
                    /\ g_arc' # special_chunk]_vars

\* C27 witness: a store is about to commit while both readers are about
\* to attempt the exchange of ntarc_atomic_begin, one having read the
\* special chunk and one the pair that the store has taken out.
C27_Witness ==
    \E t \in Writers :
        /\ apc[t] = "store_commit"
        /\ IsObject(old_chunk[t])
        /\ \E u \in Readers : apc[u] = "begin_cas"
                                  /\ old_chunk[u] = special_chunk
        /\ \E u \in Readers : apc[u] = "begin_cas"
                                  /\ old_chunk[u] = old_chunk[t]


\* The threads that call ntarc_atomic_store.
Storers == Writers \cup {MainThread}

\* C28: inside atomic_store the steps are taken in the order clone of the
\* new pair, acquisition of the cell, decrement of the old pair's count
\* (the cell still held), release of the cell with the new pair, destroy.
\* The destructor of the displaced pair is invoked only by the last step,
\* after the storing thread has put the new pair into the cell and no
\* longer holds it, and only when the decrement returned 1 (it took the
\* count from 1 to 0); while the destructor is due the cell holds the
\* special chunk only if another thread has acquired it.
C28_StoreOrdering ==
    /\ [](\A t \in Storers :
             apc[t] = "store_drop_data" =>
                 /\ ~InCritical(t)
                 /\ g_arc = special_chunk =>
                        \E u \in ArcThreads \ {t} : InCritical(u)
                 /\ (ref_count[t] = 1 /\ IsObject(old_chunk[t])) =>
                        /\ reference_count[ObjOf(old_chunk[t])] = 0
                        /\ destroys[ObjOf(old_chunk[t])] = 0)
    /\ [][\A t \in Storers :
             /\ apc[t] = "store_clone" =>
                    /\ apc'[t] \in {"store_clone", "begin_cb"}
                    /\ apc'[t] = "begin_cb" =>
                           /\ new_chunk'[t] = foo[t]
                           /\ IsObject(foo[t]) =>
                                  reference_count'[ObjOf(foo[t])]
                                      = reference_count[ObjOf(foo[t])] + 1
                           /\ UNCHANGED <<g_arc, destroys>>
             /\ apc[t] = "begin_cas" =>
                    /\ apc'[t] \in {"begin_cas", "begin_cb",
                                    "store_drop_reference"}
                    /\ apc'[t] = "store_drop_reference" =>
                           /\ old_chunk[t] = g_arc
                           /\ g_arc' = special_chunk
                           /\ UNCHANGED <<reference_count, destroys>>
             /\ apc[t] = "store_drop_reference" =>
                    /\ apc'[t] \in {"store_drop_reference", "store_commit"}
                    /\ apc'[t] = "store_commit" =>
                           /\ g_arc = special_chunk
                           /\ g_arc' = special_chunk
                           /\ IsObject(old_chunk[t]) =>
                                  /\ ref_count'[t]
                                       = reference_count[ObjOf(old_chunk[t])]
                                  /\ reference_count'[ObjOf(old_chunk[t])]
                                       = ref_count'[t] - 1
                           /\ UNCHANGED destroys
             /\ apc[t] = "store_commit" =>
                    /\ apc'[t] \in {"store_commit", "store_drop_data"}
                    /\ apc'[t] = "store_drop_data" =>
                           /\ g_arc = special_chunk
                           /\ g_arc' = new_chunk[t]
                           /\ UNCHANGED <<reference_count, destroys>>
             /\ apc[t] = "store_drop_data" =>
                    /\ apc'[t] \in {"store_drop_data", "holding", "done"}
                    /\ apc'[t] # "store_drop_data" =>
                           /\ UNCHANGED <<g_arc, reference_count>>
                           /\ \A k \in Objects :
                                  destroys'[k] =
                                      IF /\ ref_count[t] = 1
                                         /\ ArcOf(k) = old_chunk[t]
                                      THEN destroys[k] + 1
                                      ELSE destroys[k]
          ]_vars
    /\ [][destroys' # destroys =>
             \E u \in ArcThreads :
                 /\ apc[u] \in {"store_drop_data", "drop_data"}
                 /\ apc'[u] # apc[u]]_vars

\* C28 witness: a store took the old pair's count from 1 to 0 and has
\* released the cell; its destructor call is still due while a load has
\* already acquired the cell and taken the new pair out of it.
C28_Witness ==
    \E t \in Writers, u \in Readers :
        /\ apc[t] = "store_drop_data"
        /\ ref_count[t] = 1
        /\ IsObject(old_chunk[t])
        /\ destroys[ObjOf(old_chunk[t])] = 0
        /\ InCritical(u)
        /\ old_chunk[u] = new_chunk[t]
        /\ g_arc = special_chunk


\* No clone, drop, atomic_load or atomic_store is in progress.
Quiescent == \A t \in ArcThreads : apc[t] \in {"idle", "holding", "done"}

\* The references to object k: 1 if the cell holds it, and one for every
\* thread whose local pair (from ntarc_new or ntarc_atomic_load, not yet
\* dropped) is k's.
References(k) ==
    (IF g_arc = ArcOf(k) THEN 1 ELSE 0)
        + Cardinality({t \in ArcThreads :
                           apc[t] = "holding" /\ foo[t] = ArcOf(k)})

\* C30: whenever no clone, drop, atomic_load or atomic_store is in
\* progress, the reference count of every control block that has not been
\* destroyed is the number of cells holding it plus the number of local
\* references obtained and not yet dropped, and a control block has been
\* destroyed exactly when that number is 0.
C30_RefcountAccounting ==
    Quiescent =>
        \A k \in Allocated :
            /\ destroys[k] <= 1
            /\ destroys[k] = 0 => reference_count[k] = References(k)
            /\ destroys[k] = 1 <=> References(k) = 0

\* C30 witness: nothing is in progress, the cell holds the second object,
\* which a reader has loaded too, and the first object, displaced from the
\* cell, is still referenced by its writer and by the other reader.
C30_Witness ==
    /\ Quiescent
    /\ Allocated = Objects
    /\ \E k \in Objects :
           /\ g_arc = ArcOf(k)
           /\ reference_count[k] = 2
           /\ \E t \in Readers : apc[t] = "holding" /\ foo[t] = ArcOf(k)
    /\ \E k \in Objects :
           /\ g_arc # ArcOf(k)
           /\ reference_count[k] = 2
           /\ \E t \in Readers, w \in Writers :
                  /\ apc[t] = "holding" /\ foo[t] = ArcOf(k)
                  /\ apc[w] = "holding" /\ foo[w] = ArcOf(k)


(***************************************************************************)
(* ntarc.h: progress                                                       *)
(***************************************************************************)
\* Every thread of the shared-pointer program has run to its end.
ArcAllDone == ThreadsDone /\ apc[MainThread] = "done"

\* C29: every thread makes finitely many calls (StoresPerWriter stores
\* and drops, LoadsPerReader loads and drops, main's one store); when
\* every thread that is not finished keeps taking steps, every loop of
\* ntarc_atomic_begin is left and every atomic_load and atomic_store
\* returns: the program reaches its end, where no call is in progress.
C29_Termination ==
    <>(ArcAllDone /\ \A t \in ArcThreads : ~InCall(t))

\* C29 witness: a thread is back at the top of the loop of
\* ntarc_atomic_begin after a failed attempt (it had read the special
\* chunk), while the thread that holds the cell is about to commit.
C29_Witness ==
    \E t, u \in ArcThreads :
        /\ apc[t] = "begin_cb"
        /\ old_chunk[t] = NullArc
        /\ g_arc = special_chunk
        /\ apc[u] \in {"load_commit", "store_commit"}
        /\ \E w \in Writers : iter[w] = StoresPerWriter


\* The calls of ntarc_atomic_load and ntarc_atomic_store that thread t has
\* returned from.
Returned(t) ==
    IF t = MainThread THEN (IF apc[t] = "done" THEN 1 ELSE 0)
    ELSE iter[t] + (IF apc[t] \in {"holding", "drop_data"} THEN 1 ELSE 0)

\* The calls the running threads have returned from, and the most calls
\* they can make.
RunningReturned ==
    LET RECURSIVE Sum(_)
        Sum(S) == IF S = {} THEN 0
                  ELSE LET t == CHOOSE x \in S : TRUE
                       IN Returned(t) + Sum(S \ {t})
    IN Sum(Running)
MaxCalls == 1 + NumWriters * StoresPerWriter + NumReaders * LoadsPerReader

\* C24: the cell is lock-free.  With one thread never run again from an
\* arbitrary point of its atomic_load on, and all other threads running
\* again and again, whenever a call of atomic_load or atomic_store by a
\* running thread is in progress, some call of a running thread returns
\* after finitely many steps.
C24_LockFree ==
    \A n \in 0 .. MaxCalls :
        ((\E t \in Running : InCall(t)) /\ RunningReturned = n)
            ~> (RunningReturned > n)

\* C24 witness: the thread that is not run again has acquired the cell in
\* its atomic_load and not yet committed, and a store by a running thread
\* has read the special chunk in ntarc_atomic_begin.
C24_Witness ==
    /\ apc[Suspended] \in {"load_clone", "load_commit"}
    /\ g_arc = special_chunk
    /\ \E t \in Running :
           /\ apc[t] = "begin_cas"
           /\ old_chunk[t] = special_chunk
           /\ t \in Writers


(***************************************************************************)
(* ntarc.h: the cell is reset to null                                      *)
(***************************************************************************)
\* The atomic_store of the null pair has taken effect: its commit is done.
NullStored == apc[MainThread] \in {"store_drop_data", "done"}

\* C25: atomic_store(cell, null) leaves the cell null; every atomic_load
\* that takes the cell after the commit of that store (so every one that
\* starts after the store has returned) yields the null pair; the previous
\* pair is destroyed by the store itself when its decrement returned 1
\* (the cell held the last reference) and otherwise not by the store but
\* by the drop that returns 1, not while a local reference is left, and
\* once all threads have ended every value has been destroyed exactly
\* once.
C25_NullStoreReleases ==
    /\ [](/\ \A k \in Objects : destroys[k] <= 1
          /\ NullStored =>
                \/ g_arc = NullArc
                \/ /\ g_arc = special_chunk
                   /\ \E u \in Readers :
                          InCritical(u) /\ old_chunk[u] = NullArc
          /\ \A t \in ArcThreads :
                (apc[t] = "holding" /\ IsObject(foo[t]))
                    => destroys[ObjOf(foo[t])] = 0
          /\ (apc[MainThread] = "store_drop_data"
                  /\ IsObject(old_chunk[MainThread])) =>
                /\ ref_count[MainThread] >= 1
                /\ ref_count[MainThread] = 1 =>
                       /\ destroys[ObjOf(old_chunk[MainThread])] = 0
                       /\ reference_count[ObjOf(old_chunk[MainThread])] = 0
                       /\ \A t \in ArcThreads :
                              /\ apc[t] = "holding"
                                     => foo[t] # old_chunk[MainThread]
                              /\ (apc[t] = "drop_data"
                                     /\ foo[t] = old_chunk[MainThread])
                                     => ref_count[t] > 1
                /\ ref_count[MainThread] > 1 =>
                       \/ reference_count[ObjOf(old_chunk[MainThread])] > 0
                       \/ \E t \in ArcThreads :
                              /\ apc[t] = "drop_data"
                              /\ foo[t] = old_chunk[MainThread]
                              /\ ref_count[t] = 1
                       \/ destroys[ObjOf(old_chunk[MainThread])] = 1
          /\ (apc[MainThread] = "done" /\ ThreadsDone) =>
                \A k \in Objects : destroys[k] = 1)
    /\ [][/\ ArcStep(MainThread, "store_commit", "store_drop_data") =>
                g_arc' = NullArc
          /\ (ArcStep(MainThread, "store_drop_data", "done")
                  /\ IsObject(old_chunk[MainThread])) =>
                destroys'[ObjOf(old_chunk[MainThread])]
                    = (IF ref_count[MainThread] = 1 THEN 1 ELSE
                           destroys[ObjOf(old_chunk[MainThread])])
          /\ \A t \in Readers :
                (NullStored /\ ArcStep(t, "load_clone", "load_commit")) =>
                    /\ foo'[t] = NullArc
                    /\ reference_count' = reference_count
          /\ (apc[MainThread] = "done" /\ destroys' # destroys) =>
                \E t \in ArcThreads :
                    /\ ArcStep(t, "drop_data", "idle")
                    /\ ref_count[t] = 1
                    /\ destroys'[ObjOf(foo[t])] = 1]_vars

\* C25 witness: the null store has committed, its decrement returned 2
\* because a reader still holds the displaced pair, which is therefore
\* not destroyed; and the other reader has taken the cell after the
\* commit and found the null pair there.
C25_Witness ==
    /\ apc[MainThread] = "store_drop_data"
    /\ IsObject(old_chunk[MainThread])
    /\ ref_count[MainThread] = 2
    /\ destroys[ObjOf(old_chunk[MainThread])] = 0
    /\ \E t, u \in Readers :
           /\ apc[t] = "holding"
           /\ foo[t] = old_chunk[MainThread]
           /\ apc[u] = "load_clone"
           /\ old_chunk[u] = NullArc
           /\ g_arc = special_chunk


(***************************************************************************)
(* ntarc.h: the arguments of the destructor                                *)
(***************************************************************************)
\* C26: when the last reference to a value made by ntarc_new is released,
\* by ntarc_drop or by an ntarc_atomic_store that displaces it, the
\* destructor is called with, as first argument, the p_destroy_context
\* that was passed to ntarc_new and, as second argument, a pair with the
\* control block and data of the value destroyed.
C26_DestructorArguments ==
    \A k \in Objects :
        \A i \in 1 .. Len(destroy_args[k]) :
            /\ destroy_args[k][i].p_context = p_destroy_context[k]
            /\ destroy_args[k][i].p_arc = ArcOf(k)

\* C26 witness: the program has ended and the destructor has been called
\* once on every value, each time with the value's own pair and with the
\* address of its control block's p_destroy_context field.
C26_Witness ==
    /\ apc[MainThread] = "done"
    /\ \A k \in Objects :
           /\ Len(destroy_args[k]) = 1
           /\ destroy_args[k][1].p_arc = ArcOf(k)
           /\ destroy_args[k][1].p_context = NTARC_PDESTROY_CONTEXT(ArcOf(k))


(***************************************************************************)
(* ntringb.h: occupancy                                                    *)
(***************************************************************************)
\* The elements committed by producers and not yet committed as read.
Occupancy == last_write_pos - last_read_pos

\* C32: in every reachable state 0 <= last_write - last_read <= capacity:
\* the elements written and not yet read never outnumber the slots, also
\* while next_write is further ahead because producers claim before they
\* wait.
C32_OccupancyBound ==
    /\ 0 <= Occupancy
    /\ Occupancy <= pow2_buffer_count

\* C32 witness: the ring is full of committed elements after reads have
\* been committed, and next_write is more than capacity ahead of last_read
\* because a producer has claimed and waits.
C32_Witness ==
    /\ Occupancy = pow2_buffer_count
    /\ last_read_pos >= 0
    /\ next_write_pos - last_read_pos > pow2_buffer_count
    /\ \E t \in Producers :
           pc[t] = "begin_write" /\ current_pos[t] = next_write_pos


(***************************************************************************)
(* ntringb.h: more participants than the documented bound                  *)
(***************************************************************************)
\* The claims that wait: the cursor has its sequence number and has not
\* been let into its window.
Waiting(t) == pc[t] \in {"begin_write", "poll_write", "begin_read", "poll_read"}

\* The sequence numbers and slots of the run fit in a LONG: no counter
\* wraps.
NoWrap == next_write_pos < LongHalf - 1 /\ next_read_pos < LongHalf - 1

StoresHeld(t) ==
    /\ apc[t] \in {"store_drop_reference", "store_commit", "store_drop_data"}
    /\ IsObject(new_chunk[t])
    /\ new_chunk[t] = foo[t]
    /\ old_chunk[t] = new_chunk[t]

\* C31: an atomic_store of the value v the cell already holds, by a caller
\* that holds a local reference to v, never takes v's reference count to 0
\* and never invokes v's destructor: the count is at least 3 when the old
\* reference is dropped (cell, caller, the clone made by the store), at
\* least 2 until the commit and at least 1 (the caller's) after it, the
\* value returned by the drop is above 1, the commit puts v back into the
\* cell, and the call changes the count by +1 (clone) and -1 (drop) only, so
\* that with no call in progress the count is again the number of
\* references, as it was before the call.
C31_StoreHeldValue ==
    /\ [](\A t \in Writers :
              StoresHeld(t) =>
                  LET k == ObjOf(new_chunk[t]) IN
                      /\ destroys[k] = 0
                      /\ destroy_args[k] = <<>>
                      /\ reference_count[k] >=
                             (CASE apc[t] = "store_drop_reference" -> 3
                                [] apc[t] = "store_commit" -> 2
                                [] OTHER -> 1)
                      /\ apc[t] # "store_drop_reference" => ref_count[t] > 1)
    /\ [](Quiescent =>
              \A t \in Writers :
                  apc[t] = "holding" =>
                      /\ destroys[ObjOf(foo[t])] = 0
                      /\ reference_count[ObjOf(foo[t])] =
                             References(ObjOf(foo[t])))
    /\ [][\A t \in Writers :
              /\ ArcStep(t, "store_clone", "begin_cb") /\ IsObject(foo[t]) =>
                     reference_count' =
                         [reference_count EXCEPT ![ObjOf(foo[t])] = @ + 1]
              /\ StoresHeld(t) =>
                     LET k == ObjOf(new_chunk[t]) IN
                         /\ ArcStep(t, "store_drop_reference", "store_commit") =>
                                /\ reference_count' =
                                       [reference_count EXCEPT ![k] = @ - 1]
                                /\ ref_count'[t] = reference_count[k]
                         /\ ArcStep(t, "store_commit", "store_drop_data") =>
                                /\ g_arc = special_chunk
                                /\ g_arc' = foo[t]
                                /\ reference_count' = reference_count
                         /\ ArcStep(t, "store_drop_data", "holding") =>
                                /\ destroys' = destroys
                                /\ reference_count' = reference_count
                                /\ foo'[t] = foo[t]]_vars

\* C31 witness: a writer has stored the pair it holds over that same pair
\* and is about to return; the cell holds the pair, the drop returned 3 or
\* more, and a reader holds a reference to it as well.
C31_Witness ==
    \E t \in Writers :
        /\ StoresHeld(t)
        /\ apc[t] = "store_drop_data"
        /\ g_arc = foo[t]
        /\ ref_count[t] >= 3
        /\ destroys[ObjOf(foo[t])] = 0
        /\ \E u \in Readers : apc[u] = "holding" /\ foo[u] = foo[t]

=============================================================================
